---- MODULE Spec2Model ----
(***************************************************************************)
(* h-state: signal-based reactive store (src/src/index.ts).                *)
(*                                                                         *)
(* The JavaScript program is single-threaded: every top-level call         *)
(* (a property write, $merge, $update, a timer callback ...) runs to       *)
(* completion, so each is one action.  The body of batch(fn) is caller     *)
(* code, so batch is split into its entry (batchDepth++) and its finally   *)
(* block (batchDepth--, flush), with the caller's operations in between.   *)
(*                                                                         *)
(* The handlers are written as operators on a record w holding the whole   *)
(* program state ("world"); an action applies one handler to the current   *)
(* world and commits the result.                                           *)
(***************************************************************************)
EXTENDS Integers, Sequences, FiniteSets, TLC

VARIABLES
    batchDepth,      \* index.ts:51   let batchDepth
    pendingUpdates,  \* index.ts:52   const pendingUpdates (insertion-ordered Set of closures)
    globalUid,       \* index.ts:46   let globalUid
    reactiveCache,   \* index.ts:95   WeakMap raw object -> wrapper
    raw,             \* heap: plain objects (caller's objects, JSON.parse results)
    wrap,            \* heap: wrapper objects built by makeReactive (captured variables)
    store,           \* per createStore call: closure variables of the store
    storage,         \* localStorage: key -> item
    timers,          \* pending setTimeout callbacks
    counter,         \* per subscriber: the number of times it was invoked
    setItems,        \* number of completed localStorage.setItem calls
    held,            \* a reference the caller keeps: const w = store.<path>
    repl,            \* the replacements of object-valued properties still in effect
    since,           \* time elapsed since the store's last notification
    acc,             \* what the running outermost batch has done so far
    streak,          \* the run of unbatched value-changing writes in progress
    last,            \* what the last operation did, as its caller observes it
    reactive         \* ReactiveStore.ts: an instance of the Proxy-based ReactiveStore

\* the variables of index.ts and of its callers
coreVars == <<batchDepth, pendingUpdates, globalUid, reactiveCache, raw, wrap, store,
              storage, timers, counter, setItems, held, repl, since, acc, streak, last>>

vars == <<coreVars, reactive>>

-----------------------------------------------------------------------------
(* Bounds *)

MaxVal == 1        \* primitive values are 0..MaxVal
MaxUid == 2        \* version ids allocated in one run
MaxWrappers == 2   \* wrapper objects built in one run
MaxDepth == 2      \* nesting depth of batch calls
MaxDebounce == 2   \* largest debounce delay, in clock ticks
MaxSaves == 2      \* storage writes after which $persist is no longer called
MaxLen == 2        \* largest length of an array

-----------------------------------------------------------------------------
(* Values.  A JavaScript value is a pair <<tag, n>>:                       *)
(*   "prim"  primitive n            (compared by value with ===)           *)
(*   "undef" undefined                                                     *)
(*   "obj"   plain object number n created by the caller                   *)
(*   "json"  plain object number n created by JSON.parse                   *)
(*   "wrap"  wrapper object number n created by makeReactive               *)
(*   "arr"   array number n                                                *)
(*   "bigint" a BigInt primitive                                           *)
(* Objects are compared by reference: their pair is their identity.        *)

Prim(n) == <<"prim", n>>
Undef == <<"undef", 0>>
Obj(n) == <<"obj", n>>
Json(n) == <<"json", n>>
Wrapper(n) == <<"wrap", n>>
Arr(n) == <<"arr", n>>
\* a BigInt: a primitive JSON.stringify throws on
BigInt == <<"bigint", 0>>

Prims == {Prim(n) : n \in 0..MaxVal}

\* index.ts:103-109, 122-127, 305-310: value !== null && typeof value === "object"
\* && not a Date, RegExp or Array
isNestedObject(v) == v[1] \in {"obj", "json", "wrap"}

\* index.ts:143, 325: oldValue && typeof oldValue === "object"
isTruthyObject(v) == v[1] \in {"obj", "json", "wrap", "arr"}

\* the stores of the run: one per createStore call
StoreIds == DOMAIN store
Subscribers == {"L1", "L2"}

\* The caller's plain objects: 1 and 2 hold a primitive v and a nested object p,
\* 3 and 4 hold a primitive v.
CallerObjects ==
    (Obj(1) :> [v |-> Prim(0), p |-> Obj(3)]) @@
    (Obj(2) :> [v |-> Prim(1), p |-> Obj(4)]) @@
    (Obj(3) :> [v |-> Prim(0)]) @@
    (Obj(4) :> [v |-> Prim(1)])

\* The caller's arrays, and an object that holds one
ArrayObjects ==
    (Arr(1) :> <<Prim(0)>>) @@
    (Arr(2) :> <<Prim(1)>>) @@
    (Obj(5) :> [v |-> Prim(0), l |-> Arr(1)])

-----------------------------------------------------------------------------
(* The world record *)

\* The last six fields describe the operation in progress: the exception on
\* its way to the caller (thrown), the update closures it has run, each with
\* the size of pendingUpdates at that moment (ran), the failures raised by
\* the storage backend, the consumers' listeners it has invoked, each with
\* the number of notifications in progress (order, level), the closures it
\* has added to pendingUpdates (enqueued),
\* serialize or deserialize (faults), the calls of persist.onError (errors),
\* the runs of Signal.notify (notified), and the calls of localStorage.getItem
\* and removeItem.  The field on names the stores the operation is called on.
World ==
    [batchDepth |-> batchDepth, pendingUpdates |-> pendingUpdates,
     globalUid |-> globalUid, reactiveCache |-> reactiveCache, raw |-> raw,
     wrap |-> wrap, store |-> store, storage |-> storage, timers |-> timers,
     counter |-> counter, setItems |-> setItems,
     thrown |-> FALSE, faults |-> 0, errors |-> 0, notified |-> 0,
     getItems |-> 0, removeItems |-> 0, on |-> {}, ran |-> <<>>,
     order |-> <<>>, level |-> 0, enqueued |-> 0]

\* the world an operation called on store s starts from
Called(s) == [World EXCEPT !.on = {s}]

Commit(w) ==
    /\ batchDepth' = w.batchDepth
    /\ pendingUpdates' = w.pendingUpdates
    /\ globalUid' = w.globalUid
    /\ reactiveCache' = w.reactiveCache
    /\ raw' = w.raw
    /\ wrap' = w.wrap
    /\ store' = w.store
    /\ storage' = w.storage
    /\ timers' = w.timers
    /\ counter' = w.counter
    /\ setItems' = w.setItems
    /\ reactive' = reactive   \* ReactiveStore.ts is a class of its own

EmptyFn == [x \in {} |-> 0]

\* f with key k removed
Without(f, k) == [x \in DOMAIN f \ {k} |-> f[x]]


-----------------------------------------------------------------------------
(* Persistence utilities (index.ts:184-206)                                *)
(*                                                                         *)
(* A serialized state (a JSON text) is the set of its <<path, leaf>>       *)
(* pairs: a leaf is a primitive, or JsonObject where an object starts.     *)

JsonObject == <<"obj", 0>>

\* index.ts:184-190
isLocalStorageAvailable(w) == w.storage.available

\* index.ts:199-201  JSON.stringify of value v found at path: primitives by
\* value, plain objects field by field; undefined properties are left out.
\* A wrapper is walked through its enumerable accessors.
RECURSIVE stringify(_, _, _, _)
stringify(w, v, path, fuel) ==
    IF v[1] \in {"prim", "bigint"} THEN {<<path, v>>}
    ELSE IF v[1] = "undef" \/ fuel = 0 THEN {}
    ELSE IF v \in DOMAIN w.raw
    THEN {<<path, JsonObject>>} \cup
         UNION {stringify(w, w.raw[v][k], Append(path, k), fuel - 1) :
                    k \in DOMAIN w.raw[v]}
    ELSE LET rec == w.wrap[v]
             shown(k) == IF rec.nested[k] /\ rec.cur[k] \in DOMAIN w.reactiveCache
                         THEN w.reactiveCache[rec.cur[k]]
                         ELSE rec.cur[k]
         IN {<<path, JsonObject>>} \cup
            UNION {stringify(w, shown(k), Append(path, k), fuel - 1) :
                       k \in DOMAIN rec.cur}

\* index.ts:199-201  defaultSerialize(state)
defaultSerialize(w, state) ==
    UNION {stringify(w, state[k], <<k>>, 3) : k \in DOMAIN state}

\* JSON.stringify throws a TypeError on a BigInt
serializeThrows(w, state) == \E x \in defaultSerialize(w, state) : x[2] = BigInt

\* a stored text that is not JSON: JSON.parse throws a SyntaxError on it
Malformed == {<<<<>>, Undef>>}

\* index.ts:229  persist.onError(error), in a catch block: the failure ends there
onError(w) == [w EXCEPT !.faults = @ + 1, !.errors = @ + 1]

\* a failure that no catch block stops: it travels to the caller
raise(w) == [w EXCEPT !.faults = @ + 1, !.thrown = TRUE]

\* The keys of the JSON object that starts at path p of data
keysAt(data, p) ==
    {q[1][Len(p) + 1] : q \in {x \in data : /\ Len(x[1]) = Len(p) + 1
                                            /\ SubSeq(x[1], 1, Len(p)) = p}}

leafAt(data, p) == (CHOOSE x \in data : x[1] = p)[2]

\* index.ts:204-206  defaultDeserialize(data): JSON.parse builds a new plain
\* object for every object of the text.  The result is [heap, value]: the
\* heap with the new objects, and the top-level mapping.
defaultDeserialize(w, data) ==
    LET objPaths == {x[1] : x \in {y \in data : y[2] = JsonObject}}
        used == Cardinality({o \in DOMAIN w.raw : o[1] = "json"})
        no == CHOOSE f \in [objPaths -> (used + 1)..(used + Cardinality(objPaths))] :
                  \A p, q \in objPaths : p # q => f[p] # f[q]
        valueAt(p) == IF leafAt(data, p) = JsonObject THEN Json(no[p]) ELSE leafAt(data, p)
        fields(p) == [k \in keysAt(data, p) |-> valueAt(Append(p, k))]
        made == [o \in {Json(no[p]) : p \in objPaths} |->
                    fields(CHOOSE p \in objPaths : Json(no[p]) = o)]
    IN [heap |-> made @@ w.raw, value |-> fields(<<>>)]

\* a save whose failures are not caught
saveToStorageNoCatch(w, s) ==
    LET st == w.store[s]
        stateToSave == [k \in DOMAIN st.initial |-> st.internalState[k]]
    IN IF ~st.persist.enabled \/ ~isLocalStorageAvailable(w) THEN w
       ELSE IF serializeThrows(w, stateToSave) \/ w.storage.fails THEN raise(w)
       ELSE [w EXCEPT !.storage.items[st.persist.key] =
                          [present |-> TRUE, data |-> defaultSerialize(w, stateToSave)],
                      !.setItems = @ + 1]

\* index.ts:264-283  saveToStorage: serialize or setItem may throw, inside the
\* try block
saveToStorage(w, s) ==
    LET st == w.store[s]
        stateToSave == [k \in DOMAIN st.initial |-> st.internalState[k]]
        serialized == defaultSerialize(w, stateToSave)
    IN IF ~st.persist.enabled \/ ~isLocalStorageAvailable(w) THEN w
       ELSE IF serializeThrows(w, stateToSave) \/ w.storage.fails THEN onError(w)
       ELSE [w EXCEPT !.storage.items[st.persist.key] =
                          [present |-> TRUE, data |-> serialized],
                      !.setItems = @ + 1]

\* clearTimeout(id)
clearTimeout(w, id) == [w EXCEPT !.timers = {t \in @ : t.id # id}]

\* setTimeout ids: an id no pending timer and no persistTimer variable holds
freshTimerId(w) ==
    CHOOSE i \in 1..(Cardinality(w.timers) + Cardinality(DOMAIN w.store) + 1) :
        /\ \A t \in w.timers : t.id # i
        /\ \A s \in DOMAIN w.store : w.store[s].persistTimer # i

\* a schedulePersist that arms the timer whatever the debounce is
schedulePersistDeferred(w, s) ==
    LET st == w.store[s]
        w1 == IF st.persistTimer # 0 THEN clearTimeout(w, st.persistTimer) ELSE w
        id == freshTimerId(w1)
    IN IF ~st.persist.enabled THEN w
       ELSE [w1 EXCEPT !.timers = @ \cup {[id |-> id, store |-> s,
                                          left |-> st.persist.debounce]},
                       !.store[s].persistTimer = id]

\* index.ts:286-300  schedulePersist
schedulePersist(w, s) ==
    LET st == w.store[s]
        w1 == IF st.persistTimer # 0 THEN clearTimeout(w, st.persistTimer) ELSE w
        id == freshTimerId(w1)
    IN IF ~st.persist.enabled THEN w
       ELSE IF st.persist.debounce > 0
       THEN [w1 EXCEPT !.timers = @ \cup {[id |-> id, store |-> s,
                                          left |-> st.persist.debounce]},
                       !.store[s].persistTimer = id]
       ELSE saveToStorage(w1, s)

-----------------------------------------------------------------------------
(* Signal (index.ts:13-44)                                                 *)

\* a listener that throws when it is invoked
Thrower == "bad"

\* listeners that write to the store they are subscribed to:
\* () => { store.n = 1 } and () => batch(() => { store.n = 1 })
Writer == "LW"

Batcher == "LB"

RECURSIVE storeSet(_, _, _, _)
RECURSIVE batchExit(_)

\* a notification that catches what a listener throws
invokeListenerGuarded(w, s, l) ==
    IF l = "persist" THEN schedulePersist(w, s)
    ELSE IF l = Thrower THEN w
    ELSE [w EXCEPT !.counter[s][l] = @ + 1]

\* A listener of the store's signal: the persistence listener of
\* index.ts:255-257, or a consumer's listener (index.ts:399-401), which
\* bumps the consumer's counter; index.ts:34 calls it outside any try block,
\* so what Thrower throws leaves Signal.notify.
invokeListener(w, s, l) ==
    IF l = "persist" THEN schedulePersist(w, s)
    ELSE IF l = Thrower THEN raise(w)
    ELSE LET w1 == [w EXCEPT !.order = Append(@, <<l, w.level>>)]
         IN IF l = Writer THEN storeSet(w1, s, "n", Prim(1))
            ELSE IF l = Batcher
            THEN batchExit(storeSet([w1 EXCEPT !.batchDepth = @ + 1], s, "n", Prim(1)))
            ELSE [w1 EXCEPT !.counter[s][l] = @ + 1]

\* index.ts:32-36  Signal.notify: the listeners in insertion order
RECURSIVE notifyFrom(_, _, _)
notifyFrom(w, s, i) ==
    IF i > Len(w.store[s].listeners) \/ w.thrown THEN w
    ELSE notifyFrom(invokeListener(w, s, w.store[s].listeners[i]), s, i + 1)

Signal_notify(w, s) ==
    LET r == notifyFrom([w EXCEPT !.notified = @ + 1, !.level = @ + 1], s, 1)
    IN [r EXCEPT !.level = @ - 1]

\* a Signal.set without the comparison with the current value
Signal_setAlways(w, s, newValue) ==
    Signal_notify([w EXCEPT !.store[s].value = newValue], s)

\* a signal value that all the stores share
Signal_setShared(w, s, newValue) ==
    IF w.store[s].value # newValue
    THEN Signal_notify([w EXCEPT !.store = [t \in DOMAIN w.store |->
                                              [w.store[t] EXCEPT !.value = newValue]]], s)
    ELSE w

\* index.ts:25-30  Signal.set
Signal_set(w, s, newValue) ==
    IF w.store[s].value # newValue
    THEN Signal_notify([w EXCEPT !.store[s].value = newValue], s)
    ELSE w

\* a subscribe that keeps its listeners in a list, not in a Set
Signal_subscribeList(w, s, l) ==
    [w EXCEPT !.store[s].listeners = Append(@, l),
              !.store[s].unsubscribes = @ \cup {l}]

\* index.ts:38-43  Signal.subscribe: Set.add, and the closure returned
\* (unsubscribes: the listeners such a closure exists for)
Signal_subscribe(w, s, l) ==
    LET w1 == [w EXCEPT !.store[s].unsubscribes = @ \cup {l}]
    IN IF \E i \in 1..Len(w.store[s].listeners) : w.store[s].listeners[i] = l THEN w1
       ELSE [w1 EXCEPT !.store[s].listeners = Append(@, l)]

\* ls without the element l
RECURSIVE SeqWithout(_, _)
SeqWithout(ls, l) ==
    IF ls = <<>> THEN <<>>
    ELSE IF Head(ls) = l THEN SeqWithout(Tail(ls), l)
    ELSE <<Head(ls)>> \o SeqWithout(Tail(ls), l)

\* index.ts:40-42  the closure subscribe returned for l: Set.delete
Signal_unsubscribe(w, s, l) ==
    [w EXCEPT !.store[s].listeners = SeqWithout(@, l)]

-----------------------------------------------------------------------------
(* Batch scheduler (index.ts:46-93)                                        *)

\* an update closure that numbers the versions store by store
runUpdateStoreScoped(w, fn) ==
    LET newUid == w.store[fn.store].stateId + 1
        w1 == [w EXCEPT !.store[fn.store].stateId = newUid,
                        !.ran = Append(@, [store |-> fn.store,
                                           pending |-> Len(w.pendingUpdates)])]
    IN Signal_set(w1, fn.store, newUid)

\* index.ts:88-92  the closure markUpdated schedules; fn.store names the
\* state and signal it captured
runUpdate(w, fn) ==
    LET newUid == w.globalUid + 1   \* index.ts:47-49 nextUid
        w1 == [w EXCEPT !.globalUid = newUid, !.store[fn.store].stateId = newUid,
                        !.ran = Append(@, [store |-> fn.store,
                                           pending |-> Len(w.pendingUpdates)])]
    IN Signal_set(w1, fn.store, newUid)

\* a scheduler that defers every update, also outside a batch
scheduleUpdateAlwaysQueue(w, fn) ==
    [w EXCEPT !.pendingUpdates = Append(@, fn)]

\* a scheduler that never runs an update at once
scheduleUpdateDeferred(w, fn) ==
    [w EXCEPT !.pendingUpdates = Append(@, fn), !.enqueued = @ + 1]

\* index.ts:54-60  scheduleUpdate.  Every call of markUpdated passes a new
\* function object, so pendingUpdates.add never meets an equal member: the
\* set grows by one entry, kept in insertion order.
scheduleUpdate(w, fn) ==
    IF w.batchDepth > 0
    THEN [w EXCEPT !.pendingUpdates = Append(@, fn), !.enqueued = @ + 1]
    ELSE runUpdate(w, fn)

RECURSIVE runUpdates(_, _, _)
runUpdates(w, updates, i) ==
    IF i > Len(updates) \/ w.thrown THEN w
    ELSE runUpdates(runUpdate(w, updates[i]), updates, i + 1)

\* a flush that runs the pending updates and leaves them in the set
flushUpdatesKeepPending(w) == runUpdates(w, w.pendingUpdates, 1)

\* index.ts:62-70  flushUpdates
flushUpdates(w) ==
    IF Len(w.pendingUpdates) > 0
    THEN runUpdates([w EXCEPT !.pendingUpdates = <<>>], w.pendingUpdates, 1)
    ELSE w

\* index.ts:73  batch: batchDepth++
batchEnter(w) == [w EXCEPT !.batchDepth = @ + 1]

\* a finally block that flushes at every exit, outermost or not
batchExitAlwaysFlush(w) == flushUpdates([w EXCEPT !.batchDepth = @ - 1])

\* index.ts:76-81  batch: the finally block
batchExit(w) ==
    LET w1 == [w EXCEPT !.batchDepth = @ - 1]
    IN IF w1.batchDepth = 0 THEN flushUpdates(w1) ELSE w1

\* a batch without finally block: when fn throws, nothing more is done
batchExitThrowingNoFinally(w) == raise(w)

\* index.ts:74-81  batch when fn throws: the finally block runs as it does
\* when fn returns, then the exception goes on to the caller
batchExitThrowing(w) ==
    LET r == batchExit(w)
    IN [r EXCEPT !.thrown = TRUE, !.faults = @ + 1]

\* index.ts:84-93  markUpdated
markUpdated(w, s) == scheduleUpdate(w, [store |-> s])

-----------------------------------------------------------------------------
(* Reactive wrappers (index.ts:95-177)                                     *)
(*                                                                         *)
(* A wrapper is the object makeReactive builds: per key an accessor pair   *)
(* over a captured variable currentValue (cur), installed as the nested    *)
(* kind (index.ts:131-151) or the plain kind (index.ts:154-169) according  *)
(* to the value the key had when the wrapper was built.                    *)

\* index.ts:118-120  the own enumerable keys of obj and the values obj[key]
ownValues(w, obj) ==
    IF obj \in DOMAIN w.raw THEN w.raw[obj]
    ELSE [k \in DOMAIN w.wrap[obj].cur |->
             IF w.wrap[obj].nested[k] /\ w.wrap[obj].cur[k] \in DOMAIN w.reactiveCache
             THEN w.reactiveCache[w.wrap[obj].cur[k]]
             ELSE w.wrap[obj].cur[k]]

\* a makeReactive that never looks its argument up in the cache
makeReactiveNoLookup(w, obj, s) ==
    IF ~isNestedObject(obj) THEN [w |-> w, ret |-> obj]
    ELSE LET reactiveObj == Wrapper(Cardinality(DOMAIN w.wrap) + 1)
             values == ownValues(w, obj)
             built == [src |-> obj, store |-> s, cur |-> values,
                       nested |-> [k \in DOMAIN values |-> isNestedObject(values[k])]]
         IN [w |-> [w EXCEPT !.wrap = (reactiveObj :> built) @@ @,
                             !.reactiveCache = (obj :> reactiveObj) @@ @],
             ret |-> reactiveObj]

\* index.ts:97-177  makeReactive(obj, rootSignal, rootState): [w, ret]
makeReactive(w, obj, s) ==
    IF ~isNestedObject(obj) THEN [w |-> w, ret |-> obj]
    ELSE IF obj \in DOMAIN w.reactiveCache
    THEN [w |-> w, ret |-> w.reactiveCache[obj]]
    ELSE LET reactiveObj == Wrapper(Cardinality(DOMAIN w.wrap) + 1)
             values == ownValues(w, obj)
             built == [src |-> obj, store |-> s, cur |-> values,
                       nested |-> [k \in DOMAIN values |-> isNestedObject(values[k])]]
         IN [w |-> [w EXCEPT !.wrap = (reactiveObj :> built) @@ @,
                             !.reactiveCache = (obj :> reactiveObj) @@ @],
             ret |-> reactiveObj]

\* index.ts:134-137, 157-159  the getter of key on wrapper r: [w, ret]
wrapperGet(w, r, key) ==
    LET rec == w.wrap[r]
    IN IF rec.nested[key] THEN makeReactive(w, rec.cur[key], rec.store)
       ELSE [w |-> w, ret |-> rec.cur[key]]

\* a wrapper setter that notifies but does not keep the new value
wrapperSetNoStore(w, r, key, newValue) ==
    LET rec == w.wrap[r]
    IN IF rec.cur[key] = newValue THEN w
       ELSE markUpdated(w, rec.store)

\* a wrapper setter that assigns to the wrapped object, not to the variable
\* it captured
wrapperSetWritesThrough(w, r, key, newValue) ==
    LET rec == w.wrap[r]
    IN IF rec.cur[key] = newValue THEN w
       ELSE markUpdated([w EXCEPT !.raw[rec.src][key] = newValue,
                                  !.wrap[r].cur[key] = newValue], rec.store)

\* index.ts:138-148, 160-166  the setter of key on wrapper r
wrapperSet(w, r, key, newValue) ==
    LET rec == w.wrap[r]
        currentValue == rec.cur[key]
        w1 == IF rec.nested[key] /\ isTruthyObject(currentValue)
              THEN [w EXCEPT !.reactiveCache = Without(@, currentValue)]
              ELSE w
        w2 == [w1 EXCEPT !.wrap[r].cur[key] = newValue]
    IN IF currentValue = newValue THEN w
       ELSE markUpdated(w2, rec.store)

\* o.key for any object o: an accessor of a wrapper, a field of a plain object
getProp(w, o, key) ==
    IF o \in DOMAIN w.wrap THEN wrapperGet(w, o, key)
    ELSE [w |-> w, ret |-> IF key \in DOMAIN w.raw[o] THEN w.raw[o][key] ELSE Undef]

\* o.key = value for any object o
setProp(w, o, key, value) ==
    IF o \in DOMAIN w.wrap THEN wrapperSet(w, o, key, value)
    ELSE [w EXCEPT !.raw[o] = (key :> value) @@ @]

hasProp(w, o, key) ==
    /\ isNestedObject(o)
    /\ IF o \in DOMAIN w.wrap THEN key \in DOMAIN w.wrap[o].cur
       ELSE key \in DOMAIN w.raw[o]

-----------------------------------------------------------------------------
(* Store (index.ts:212-408)                                                *)

\* index.ts:314-318, 337-339  the root getter of key: [w, ret]
storeGet(w, s, key) ==
    LET st == w.store[s]
    IN IF key \notin DOMAIN st.accessor
       THEN [w |-> w, ret |-> IF key \in DOMAIN st.props THEN st.props[key] ELSE Undef]
       ELSE IF st.accessor[key] = "object"
       THEN makeReactive(w, st.internalState[key], s)
       ELSE [w |-> w, ret |-> st.internalState[key]]

\* a root setter without the oldValue === value early return
storeSetNoGuard(w, s, key, value) ==
    LET st == w.store[s]
    IN IF key \notin DOMAIN st.accessor
       THEN [w EXCEPT !.store[s].props = (key :> value) @@ @]
       ELSE markUpdated([w EXCEPT !.store[s].internalState[key] = value], s)

\* index.ts:319-330, 340-347  the root setter of key; a key without accessor
\* becomes a plain property of the store object
storeSet(w, s, key, value) ==
    LET st == w.store[s]
        oldValue == st.internalState[key]
        w1 == IF st.accessor[key] = "object" /\ isTruthyObject(oldValue)
              THEN [w EXCEPT !.reactiveCache = Without(@, oldValue)]
              ELSE w
        w2 == [w1 EXCEPT !.store[s].internalState[key] = value]
    IN IF key \notin DOMAIN st.accessor
       THEN [w EXCEPT !.store[s].props = (key :> value) @@ @]
       ELSE IF oldValue = value THEN w
       ELSE markUpdated(w2, s)

\* store.k1.k2...kn read by the caller: [w, ret, ok]; ok is FALSE when the
\* chain meets a value without that property (a TypeError, or undefined)
RECURSIVE getFrom(_, _, _, _)
getFrom(w, v, path, i) ==
    IF i > Len(path) THEN [w |-> w, ret |-> v, ok |-> TRUE]
    ELSE IF ~hasProp(w, v, path[i]) THEN [w |-> w, ret |-> Undef, ok |-> FALSE]
    ELSE LET r == getProp(w, v, path[i])
         IN getFrom(r.w, r.ret, path, i + 1)

readPath(w, s, path) ==
    LET r == storeGet(w, s, path[1])
    IN getFrom(r.w, r.ret, path, 2)

\* store.k1.k2...kn = value written by the caller
writePath(w, s, path, value) ==
    IF Len(path) = 1 THEN storeSet(w, s, path[1], value)
    ELSE LET parent == readPath(w, s, SubSeq(path, 1, Len(path) - 1))
         IN setProp(parent.w, parent.ret, path[Len(path)], value)

canWrite(w, s, path) ==
    IF Len(path) = 1 THEN path[1] \in DOMAIN w.store[s].accessor
    ELSE LET parent == readPath(w, s, SubSeq(path, 1, Len(path) - 1))
         IN parent.ok /\ hasProp(parent.w, parent.ret, path[Len(path)])

\* a run of assignments, as the caller's code or a method body issues them:
\* writes is a sequence of <<path, value>>
RECURSIVE writeAll(_, _, _, _)
writeAll(w, s, writes, i) ==
    IF i > Len(writes) \/ w.thrown THEN w
    ELSE writeAll(writePath(w, s, writes[i][1], writes[i][2]), s, writes, i + 1)

\* a $update that does nothing
updateNothing(w, s) == w

\* an in-place mutation that also notifies, as a reactive array would
arrayMutateNotifying(w, s, path, m, x) ==
    LET r == readPath(w, s, path)
    IN markUpdated([r.w EXCEPT !.raw[r.ret] = IF m = "push" THEN Append(@, x) ELSE Tail(@)], s)

\* store.<path>.push(x) or store.<path>.splice(0, 1): the getters (index.ts:
\* 337-339, 157-159) hand out the array itself (makeReactive passes arrays
\* through, index.ts:107-109), and the array method changes it in place
arrayMutate(w, s, path, m, x) ==
    LET r == readPath(w, s, path)
    IN [r.w EXCEPT !.raw[r.ret] = IF m = "push" THEN Append(@, x) ELSE Tail(@)]

\* index.ts:355-357  $update
update(w, s) == markUpdated(w, s)

\* index.ts:371-373  $persist
persist(w, s) == saveToStorage(w, s)

\* index.ts:375-383  $clearPersist
clearPersist(w, s) ==
    LET st == w.store[s]
        called == [w EXCEPT !.removeItems = @ + 1]
    IN IF ~isLocalStorageAvailable(w) THEN w
       ELSE IF w.storage.fails THEN onError(called)
       ELSE [called EXCEPT !.storage.items[st.persist.key] = [present |-> FALSE, data |-> {}]]

\* index.ts:359-368  $merge(partial): partial is a sequence of <<key, value>>
merge(w, s, partial) ==
    batchExit(writeAll(batchEnter(w), s,
                       [i \in 1..Len(partial) |-> <<<<partial[i][1]>>, partial[i][2]>>], 1))

\* The body of the user's method: (x, y) => { store.n = x; store.a.v = y }
\* (the shape of updateUser in __tests__/createStore.test.tsx:36-39)
methodBody(x, y) == <<<<<<"n">>, x>>, <<<<"a", "v">>, y>>>>

\* index.ts:385-393  the store's method is the function the creator returned:
\* calling it runs the body
callMethod(w, s, x, y) == writeAll(w, s, methodBody(x, y), 1)

\* a creators loop that stops at the first missing creator
RECURSIVE runCreatorsBreak(_, _, _)
runCreatorsBreak(w, s, i) ==
    LET st == w.store[s]
        methodName == st.methodCreators[i].name
    IN IF i > Len(st.methodCreators) THEN w
       ELSE IF ~st.methodCreators[i].present
       THEN [w EXCEPT !.store[s].skipped = @ + 1]
       ELSE runCreatorsBreak(
                [w EXCEPT !.store[s].created =
                              Append(@, [name |-> methodName, store |-> s,
                                         saw |-> DOMAIN st.methods]),
                          !.store[s].methods = (methodName :> <<"method", methodName>>) @@ @],
                s, i + 1)

\* index.ts:385-393  the loop over Object.keys(methodCreators), from the i-th
\* key on.  methodCreators is the sequence of the keys in that order, each
\* with a creator or with a falsy value (present FALSE).  A creator notes
\* the store it is given and the methods it finds on it (created), and
\* returns the method; skipped counts the console.error calls.
RECURSIVE runCreators(_, _, _)
runCreators(w, s, i) ==
    LET st == w.store[s]
        methodName == st.methodCreators[i].name
    IN IF i > Len(st.methodCreators) THEN w
       ELSE IF ~st.methodCreators[i].present
       THEN runCreators([w EXCEPT !.store[s].skipped = @ + 1], s, i + 1)
       ELSE runCreators(
                [w EXCEPT !.store[s].created =
                              Append(@, [name |-> methodName, store |-> s,
                                         saw |-> DOMAIN st.methods]),
                          !.store[s].methods = (methodName :> <<"method", methodName>>) @@ @],
                s, i + 1)

\* a constructor whose merge lets the keys of initial win over the restored ones
createStoreInitialWins(w, s) ==
    LET st == w.store[s]
    IN [w EXCEPT !.store[s] = [st EXCEPT
                     !.pc = "ready",
                     !.internalState = st.initial,
                     !.stateId = 0,
                     !.value = 0,
                     !.listeners = IF st.persist.enabled THEN <<"persist">> ELSE <<>>,
                     !.persistTimer = 0,
                     !.accessor = [k \in DOMAIN st.initial |->
                                      IF isNestedObject(st.initial[k])
                                      THEN "object" ELSE "plain"]]]

\* index.ts:212-258, 302-353, 385-393  createStore(initial, methodCreators,
\* persistOptions)
createStore(w, s) ==
    LET st == w.store[s]
        item == w.storage.items[st.persist.key]
        tried == st.persist.enabled /\ isLocalStorageAvailable(w)
        \* index.ts:235-242: getItem or deserialize throws inside the try block
        failed == tried /\ (w.storage.fails \/ (item.present /\ item.data = Malformed))
        restore == tried /\ ~failed /\ item.present
        parsed == defaultDeserialize(w, item.data)
        restoredState == parsed.value
        mergedInitial == IF restore THEN restoredState @@ st.initial ELSE st.initial
        built ==
           [w EXCEPT !.raw = IF restore THEN parsed.heap ELSE @,
                     !.getItems = IF tried THEN @ + 1 ELSE @,
                     !.faults = IF failed THEN @ + 1 ELSE @,
                     !.errors = IF failed THEN @ + 1 ELSE @,
                     !.store[s] = [st EXCEPT
                         !.pc = "ready",
                         !.internalState = mergedInitial,
                         !.stateId = 0,
                         !.value = 0,
                         !.listeners = IF st.persist.enabled THEN <<"persist">> ELSE <<>>,
                         !.persistTimer = 0,
                         !.accessor = [k \in DOMAIN st.initial |->
                                          IF isNestedObject(st.initial[k])
                                          THEN "object" ELSE "plain"]]]
    IN runCreators(built, s, 1)

\* index.ts:395-405  useStore: the consumer's effect subscribes its listener
useStore(w, s, l) == Signal_subscribe(w, s, l)

\* an effect without cleanup
unmountNothing(w, s, l) == w

\* index.ts:398-402  the consumer unmounts: React runs the effect's cleanup,
\* the closure signal.subscribe returned
unmount(w, s, l) == Signal_unsubscribe(w, s, l)

-----------------------------------------------------------------------------
(* Proxy-based store (ReactiveStore.ts)                                    *)
(*                                                                         *)
(* The handlers are operators on the record rs of the instance: its        *)
(* fields data, subscribers and batchTimeout, the timers it has armed      *)
(* that have neither fired nor been cleared, and the number of calls of    *)
(* each callback.  A value of the data is a primitive Prim(n) or a plain    *)
(* object PlainObject(f), f mapping its keys to values: a tree, since the  *)
(* constructor and the set and merge methods store deep clones.            *)

PlainObject(f) == <<"plain", f>>

\* value && typeof value === "object"
isObject(v) == v[1] = "plain"

\* Object.keys(o) and o[k] of a plain object
ownKeys(o) == DOMAIN o[2]

field(o, k) == o[2][k]

\* the object o with o[k] = v
assign(o, k, v) ==
    PlainObject([x \in ownKeys(o) \cup {k} |-> IF x = k THEN v ELSE field(o, x)])

\* the callbacks: two that only count their calls, and one that also keeps
\* the derived property d equal to n: () => { proxy.d = proxy.n }
Callbacks == {"S1", "S2"}

Deriver == "W"

NewReactiveStore ==
    [pc |-> "new", data |-> PlainObject(EmptyFn), subscribers |-> <<>>, batchTimeout |-> 0,
     timers |-> {}, calls |-> [c \in Callbacks \cup {Deriver} |-> 0],
     op |-> "none", changed |-> FALSE, burst |-> 0,
     delta |-> [c \in Callbacks \cup {Deriver} |-> 0],
     unsubscribes |-> {}, frozen |-> [c \in Callbacks \cup {Deriver} |-> -1],
     was |-> <<>>, old |-> PlainObject(EmptyFn), path |-> <<>>, arg |-> Undef,
     touched |-> FALSE]

\* ReactiveStore.ts:8-10  constructor: this.data = deepClone(initialData)
ReactiveStore_new(rs, initialData) ==
    [rs EXCEPT !.pc = "ready", !.data = initialData]

\* ReactiveStore.ts:83-90  the value at path: undefined as soon as a part
\* is not the key of an object
RECURSIVE getNestedValue(_, _)
getNestedValue(obj, path) ==
    IF path = <<>> THEN obj
    ELSE IF isObject(obj) /\ Head(path) \in ownKeys(obj)
         THEN getNestedValue(field(obj, Head(path)), Tail(path))
         ELSE Undef

\* ReactiveStore.ts:92-105 and 74  obj with value at path; nothing is set
\* when the owner of the last part is not an object
RECURSIVE setNestedValue(_, _, _)
setNestedValue(obj, path, value) ==
    IF ~isObject(obj) THEN obj
    ELSE IF Len(path) = 1 THEN assign(obj, Head(path), value)
    ELSE IF Head(path) \notin ownKeys(obj) THEN obj
    ELSE assign(obj, Head(path),
                setNestedValue(field(obj, Head(path)), Tail(path), value))

\* setTimeout: an id that no armed timer has and that batchTimeout does not hold
freshTimeout(rs) ==
    CHOOSE i \in 1..(Cardinality(rs.timers) + 2) :
        /\ i \notin rs.timers /\ i # rs.batchTimeout
        /\ \A j \in 1..(i - 1) : j \in rs.timers \/ j = rs.batchTimeout

\* ReactiveStore.ts:107-116  notifySubscribers
notifySubscribers(rs) ==
    LET cleared == IF rs.batchTimeout # 0
                   THEN [rs EXCEPT !.timers = @ \ {rs.batchTimeout}]
                   ELSE rs
        id == freshTimeout(cleared)
    IN [cleared EXCEPT !.timers = @ \cup {id}, !.batchTimeout = id]

\* ReactiveStore.ts:65-79  the set trap, for proxy.<path> = value: the proxy
\* of the last key's owner is obtained from the root proxy in the same
\* expression, so its target is the object the data holds
proxySet(rs, path, value) ==
    LET oldValue == getNestedValue(rs.data, path)
    IN IF oldValue = value THEN rs
       ELSE notifySubscribers([rs EXCEPT !.data = setNestedValue(@, path, value),
                                         !.burst = IF @ < 2 THEN @ + 1 ELSE @])

\* ReactiveStore.ts:12-23  deepClone: a new tree with the same keys and
\* primitives
RECURSIVE deepClone(_)
deepClone(v) ==
    IF isObject(v) THEN PlainObject([k \in ownKeys(v) |-> deepClone(field(v, k))])
    ELSE v

\* Object.assign(target, source)
objectAssign(target, source) ==
    PlainObject([k \in ownKeys(target) \cup ownKeys(source) |->
                    IF k \in ownKeys(source) THEN deepClone(field(source, k))
                    ELSE field(target, k)])

\* ReactiveStore.ts:118-138  mergeDeep: target after the call
mergeDeepOneLevel(target, source) == objectAssign(target, source)

RECURSIVE mergeDeep(_, _)
mergeDeep(target, source) ==
    PlainObject([k \in ownKeys(target) \cup ownKeys(source) |->
        IF k \notin ownKeys(source) THEN field(target, k)
        ELSE IF /\ isObject(field(source, k))
                /\ k \in ownKeys(target)
                /\ isObject(field(target, k))
             THEN mergeDeep(field(target, k), field(source, k))
             ELSE deepClone(field(source, k))])

\* the data after the object at path has become value, by mutation in place
mutated(rs, path, value) ==
    IF path = <<>> THEN value ELSE setNestedValue(rs.data, path, value)

\* ReactiveStore.ts:36-45  the set method of the proxy for path
proxyMethodSet(rs, path, value) ==
    notifySubscribers(
        [rs EXCEPT !.data = IF path # <<>>
                            THEN setNestedValue(@, path, deepClone(value))
                            ELSE objectAssign(@, value),
                   !.burst = IF @ < 2 THEN @ + 1 ELSE @])

\* ReactiveStore.ts:46-54  the merge method of the proxy for path
proxyMethodMerge(rs, path, value) ==
    LET currentValue == getNestedValue(rs.data, path)
    IN IF isObject(currentValue)
       THEN notifySubscribers(
                [rs EXCEPT !.data = mutated(rs, path, mergeDeep(currentValue, value)),
                           !.burst = IF @ < 2 THEN @ + 1 ELSE @])
       ELSE rs

\* a function value: the merge closure or the method a creator returned
Function(name) == <<"function", name>>

\* createStore.ts:26-30  Object.keys(methodCreators).forEach: each method is
\* assigned to the proxy, that is through its set trap
RECURSIVE installMethods(_, _)
installMethods(rs, methodNames) ==
    IF methodNames = <<>> THEN rs
    ELSE installMethods(proxySet(rs, <<Head(methodNames)>>, Function(Head(methodNames))),
                        Tail(methodNames))

\* createStore.ts:16-30  createStore(initial, methodCreators): store.merge
\* is assigned through the set trap, then the methods
createProxyStore(rs, initial, methodNames) ==
    installMethods(proxySet(ReactiveStore_new(rs, initial), <<"merge">>,
                            Function("merge")),
                   methodNames)

\* a call of callback c
invokeCallback(rs, c) ==
    LET called == [rs EXCEPT !.calls[c] = @ + 1]
    IN IF c = Deriver
       THEN proxySet(called, <<"d">>, getNestedValue(called.data, <<"n">>))
       ELSE called

\* ReactiveStore.ts:113  this.subscribers.forEach((callback) => callback())
RECURSIVE forEachSubscriber(_, _)
forEachSubscriber(rs, i) ==
    IF i > Len(rs.subscribers) THEN rs
    ELSE forEachSubscriber(invokeCallback(rs, rs.subscribers[i]), i + 1)

\* ReactiveStore.ts:112-115  the callback of timer t
timeoutCallback(rs, t) ==
    LET fired == [rs EXCEPT !.timers = @ \ {t}, !.burst = 0]
    IN [forEachSubscriber(fired, 1) EXCEPT !.batchTimeout = 0]

\* ReactiveStore.ts:140-145  subscribe: Set.add
ReactiveStore_subscribe(rs, c) ==
    IF \E i \in 1..Len(rs.subscribers) : rs.subscribers[i] = c THEN rs
    ELSE [rs EXCEPT !.subscribers = Append(@, c), !.unsubscribes = @ \cup {c}]

\* ReactiveStore.ts:142-144  the function subscribe(c) returned: Set.delete
ReactiveStore_unsubscribeNothing(rs, c) == rs

ReactiveStore_unsubscribe(rs, c) ==
    [rs EXCEPT !.subscribers = SeqWithout(@, c)]

\* what the operation op, which leads from reactive to rs, did
Done(op, rs) ==
    [rs EXCEPT !.op = op,
               !.was = reactive.subscribers,
               !.old = PlainObject(EmptyFn), !.path = <<>>, !.arg = Undef,
               !.changed = rs.data # reactive.data,
               !.delta = [c \in DOMAIN rs.calls |-> rs.calls[c] - reactive.calls[c]]]

-----------------------------------------------------------------------------
(* What the caller observes                                                *)

\* the captured or stored value the property at path holds (no wrapping)
slotValue(w, s, path) ==
    IF Len(path) = 1 THEN w.store[s].internalState[path[1]]
    ELSE LET parent == readPath(w, s, SubSeq(path, 1, Len(path) - 1))
             key == path[Len(path)]
         IN IF parent.ret \in DOMAIN parent.w.wrap
            THEN parent.w.wrap[parent.ret].cur[key]
            ELSE parent.w.raw[parent.ret][key]

\* the property at path: the object that owns it and its key
slotOf(w, s, path) ==
    IF Len(path) = 1 THEN [owner |-> <<"store", s>>, key |-> path[1]]
    ELSE [owner |-> readPath(w, s, SubSeq(path, 1, Len(path) - 1)).ret,
          key |-> path[Len(path)]]

slotsAlong(w, s, path) == {slotOf(w, s, SubSeq(path, 1, n)) : n \in 1..Len(path)}

\* how many of the assignments of writes change the value of their property
RECURSIVE countChanges(_, _, _, _)
countChanges(w, s, writes, i) ==
    IF i > Len(writes) THEN 0
    ELSE (IF slotValue(w, s, writes[i][1]) # writes[i][2] THEN 1 ELSE 0)
         + countChanges(writePath(w, s, writes[i][1], writes[i][2]), s, writes, i + 1)

\* a read of store.<path> returns value: a primitive itself, an object as a
\* wrapper built from it
readsAs(w, s, path, value) ==
    LET r == readPath(w, s, path)
    IN /\ r.ok
       /\ IF isNestedObject(value)
          THEN r.ret \in DOMAIN r.w.wrap /\ r.w.wrap[r.ret].src = value
          ELSE r.ret = value

\* what the caller can read through the store under path, as JSON: the state
\* a reader of store.<path> sees, nested objects field by field
RECURSIVE readJson(_, _, _, _)
readJson(w, s, path, fuel) ==
    LET r == readPath(w, s, path)
        keys == IF r.ret \in DOMAIN r.w.wrap THEN DOMAIN r.w.wrap[r.ret].cur
                ELSE DOMAIN r.w.raw[r.ret]
    IN IF r.ret[1] = "prim" THEN {<<path, r.ret>>}
       ELSE IF r.ret[1] = "undef" \/ fuel = 0 THEN {}
       ELSE {<<path, JsonObject>>} \cup
            UNION {readJson(r.w, s, Append(path, k), fuel - 1) : k \in keys}

\* the readable state of store s over the keys of its initialState
readableState(w, s) ==
    UNION {readJson(w, s, <<k>>, 3) : k \in DOMAIN w.store[s].initial}

\* the part of the JSON text data under top-level key k
under(data, k) == {x \in data : x[1][1] = k}

\* the listeners of the signal of store s in world w
listenersOf(w, s) == {w.store[s].listeners[i] : i \in 1..Len(w.store[s].listeners)}

\* the consumers subscribed to the signal of store s
mounted(s) == {store[s].listeners[i] : i \in 1..Len(store[s].listeners)} \ {"persist"}

delivered(from, to) ==
    [s \in StoreIds |-> [l \in Subscribers |-> to[s][l] - from[s][l]]]

NoHeld == [valid |-> FALSE, store |-> 0, path |-> <<>>, ref |-> Undef, slots |-> {}]
\* what an operation that leads to world r did
Seen(op, r, changes, updates, writes) ==
    [op |-> op, depth |-> batchDepth, changes |-> changes, updates |-> updates,
     writes |-> writes,
     delta |-> delivered(counter, r.counter),
     moved |-> {s \in StoreIds : \/ r.store[s].value # store[s].value
                                 \/ r.store[s].stateId # store[s].stateId},
     queued |-> Len(r.pendingUpdates) - Len(pendingUpdates),
     threw |-> r.thrown, faults |-> r.faults, errors |-> r.errors,
     notified |-> r.notified, saved |-> r.setItems - setItems,
     getItems |-> r.getItems, removeItems |-> r.removeItems,
     on |-> r.on, uids |-> r.globalUid - globalUid,
     ran |-> r.ran, order |-> r.order, enqueued |-> r.enqueued,
     pending |-> IF op \in {"batch", "abort"} THEN pendingUpdates ELSE <<>>,
     joined |-> [s \in StoreIds |-> listenersOf(r, s) \ listenersOf(World, s)],
     left |-> [s \in StoreIds |-> listenersOf(World, s) \ listenersOf(r, s)],
     altered |-> {t \in StoreIds \ r.on :
                     /\ r.on # {}
                     /\ store[t].pc = "ready"
                     /\ readableState(r, t) # readableState(World, t)}]

Notified(r) ==
    [s \in StoreIds |->
        IF r.store[s].value # store[s].value
        THEN [seen |-> TRUE, t |-> 0, base |-> setItems, cleared |-> "no"]
        ELSE since[s]]

\* bookkeeping common to the operations: r is the world after the operation
Observe(op, r, changes, updates, writes) ==
    /\ last' = Seen(op, r, changes, updates, writes)
    /\ acc' = IF batchDepth > 0
              THEN [acc EXCEPT !.changes = @ + changes, !.updates = @ + updates]
              ELSE acc
    /\ since' = Notified(r)
    /\ streak' = IF op = "write" /\ batchDepth = 0
                 THEN [streak EXCEPT !.k = @ + changes]
                 ELSE [k |-> 0, base |-> r.counter]

\* the bounds of the run
Budget(r) ==
    /\ r.globalUid + Len(r.pendingUpdates) <= MaxUid
    /\ Cardinality(DOMAIN r.wrap) <= MaxWrappers

Ready(s) == store[s].pc = "ready"

-----------------------------------------------------------------------------
(* Inputs *)

\* the values the caller assigns to the property at path
ValuesFor(path) ==
    IF path[Len(path)] \in {"n", "v"} THEN Prims
    ELSE IF Len(path) = 1 THEN {Obj(1), Obj(2)}
    ELSE {Obj(3), Obj(4)}

\* the partial objects given to $merge: one or two root keys
Partials ==
    {<<<<"n", x>>>> : x \in Prims}
    \cup {<<<<"n", x>>, <<"a", o>>>> : x \in Prims, o \in {Obj(1), Obj(2)}}

asWrites(partial) == [i \in 1..Len(partial) |-> <<<<partial[i][1]>>, partial[i][2]>>]

InitialStates ==
    {[a |-> Obj(1), b |-> Obj(2), n |-> Prim(0)],
     [a |-> Obj(1), b |-> Obj(1), n |-> Prim(0)]}

NewStore(initial, persistOptions) ==
    [pc |-> "new", initial |-> initial, persist |-> persistOptions,
     internalState |-> EmptyFn, stateId |-> 0, value |-> 0, listeners |-> <<>>,
     persistTimer |-> 0, accessor |-> EmptyFn, props |-> EmptyFn,
     unsubscribes |-> {},
     methodCreators |-> <<>>, methods |-> EmptyFn, created |-> <<>>, skipped |-> 0]

NoPersist == [enabled |-> FALSE, key |-> "k1", debounce |-> 0]

NoItem == [present |-> FALSE, data |-> {}]

\* the module has been loaded and the caller's objects (heap) exist; the
\* stores (one of the assignments of stores) wait for their createStore call
InitOf(heap, stores, storages) ==
    /\ batchDepth = 0
    /\ pendingUpdates = <<>>
    /\ globalUid = 0
    /\ reactiveCache = EmptyFn
    /\ raw = heap
    /\ wrap = EmptyFn
    /\ store \in stores
    /\ storage \in storages
    /\ timers = {}
    /\ counter = [s \in StoreIds |-> [l \in Subscribers |-> 0]]
    /\ setItems = 0
    /\ held = NoHeld
    /\ repl = {}
    /\ since = [s \in StoreIds |-> [seen |-> FALSE, t |-> 0, base |-> 0,
                                     cleared |-> "no"]]
    /\ acc = [base |-> counter, changes |-> 0, updates |-> 0]
    /\ streak = [k |-> 0, base |-> counter]
    /\ last = [op |-> "init", depth |-> 0, changes |-> 0, updates |-> 0,
               writes |-> <<>>, delta |-> delivered(counter, counter),
               moved |-> {}, queued |-> 0, threw |-> FALSE, faults |-> 0,
               errors |-> 0, notified |-> 0, saved |-> 0, getItems |-> 0,
               removeItems |-> 0, on |-> {}, uids |-> 0,
               joined |-> [s \in StoreIds |-> {}], left |-> [s \in StoreIds |-> {}],
               altered |-> {}, ran |-> <<>>, order |-> <<>>, enqueued |-> 0,
               pending |-> <<>>]
    /\ reactive = NewReactiveStore

\* one store, created from one of initials with one of persists
InitFrom(heap, initials, persists, storages) ==
    InitOf(heap, [{1} -> {NewStore(i, p) : i \in initials, p \in persists}], storages)

\* a working storage backend holding one of items under the key
InitWith(initials, persists, items) ==
    InitFrom(CallerObjects, initials, persists,
             {[available |-> TRUE, fails |-> FALSE,
               items |-> [k \in {"k1"} |-> it]] : it \in items})

-----------------------------------------------------------------------------
(* Actions *)

\* createStore(initial, methodCreators, persistOptions)
Construct(s) ==
    /\ store[s].pc = "new"
    /\ LET r == createStore(Called(s), s)
       IN Commit(r) /\ Observe("construct", r, 0, 0, <<>>)
    /\ UNCHANGED <<held, repl>>

\* a consumer mounts, right after the store is created (L1 before L2):
\* useStore's effect subscribes its listener
Mount(s, l) ==
    /\ Ready(s) /\ last.op \in {"construct", "mount"}
    /\ l \notin mounted(s)
    /\ l = "L1" \/ "L1" \in mounted(s)
    /\ LET r == useStore(Called(s), s, l)
       IN Commit(r) /\ Observe("mount", r, 0, 0, <<>>)
    /\ UNCHANGED <<held, repl>>

WriteCore(s, path, v) ==
    /\ Ready(s) /\ streak.k <= MaxUid
    /\ canWrite(World, s, path)
    /\ LET r == writePath(Called(s), s, path, v)
           writes == <<<<path, v>>>>
       IN /\ Budget(r)
          /\ Commit(r)
          /\ Observe("write", r, countChanges(World, s, writes, 1), 0, writes)

\* store.<path> = v
Write(s, path, v) == WriteCore(s, path, v) /\ UNCHANGED <<held, repl>>

\* store.<path> = v, remembering what it replaced
WriteTracked(s, path, v) ==
    /\ WriteCore(s, path, v)
    /\ LET old == slotValue(World, s, path)
           slot == slotOf(World, s, path)
           before == IF Len(path) = 1 THEN World
                     ELSE readPath(World, s, SubSeq(path, 1, Len(path) - 1)).w
       IN /\ held' = IF held.valid /\ old # v /\ slot \in held.slots THEN NoHeld ELSE held
          /\ repl' = {x \in repl : ~(old # v /\ slot \in x.slots)} \cup
                     (IF old # v /\ isNestedObject(old) /\ v[1] \in {"obj", "json"}
                      THEN {[store |-> s, path |-> path, old |-> old, new |-> v,
                             oldWrap |-> IF old \in DOMAIN before.reactiveCache
                                         THEN before.reactiveCache[old] ELSE Undef,
                             slots |-> slotsAlong(World, s, path)]}
                      ELSE {})

\* x = store.<path>
Read(s, path) ==
    /\ Ready(s)
    /\ LET r == readPath(Called(s), s, path)
       IN /\ r.ok
          /\ Budget(r.w)
          /\ Commit(r.w)
          /\ Observe("read", r.w, 0, 0, <<>>)
    /\ UNCHANGED <<held, repl>>

\* const h = store.<path>, a nested object property
Hold(s, path) ==
    /\ Ready(s) /\ ~held.valid
    /\ LET r == readPath(Called(s), s, path)
       IN /\ r.ok
          /\ r.ret \in DOMAIN r.w.wrap
          /\ Budget(r.w)
          /\ Commit(r.w)
          /\ Observe("hold", r.w, 0, 0, <<>>)
          /\ held' = [valid |-> TRUE, store |-> s, path |-> path, ref |-> r.ret,
                      slots |-> slotsAlong(World, s, path)]
    /\ UNCHANGED repl

\* store.<path> = store.<path>, a nested-object property: the getter's
\* result is passed to the setter
Reassign(s, path) ==
    /\ Ready(s)
    /\ LET got == readPath(Called(s), s, path)
           r == writePath(got.w, s, path, got.ret)
       IN /\ got.ok
          /\ got.ret \in DOMAIN got.w.wrap
          /\ Budget(r)
          /\ Commit(r)
          /\ Observe("reassign", r, 0, 0, << <<path, got.ret>> >>)
    /\ UNCHANGED <<held, repl>>

\* h.v = value, h being the wrapper the caller got from a nested-object
\* property before the replacement x of that property
StaleWrite(x, value) ==
    /\ x \in repl
    /\ x.oldWrap \in DOMAIN wrap
    /\ LET s == x.store
           r == wrapperSet(Called(s), x.oldWrap, "v", value)
       IN /\ Budget(r)
          /\ Commit(r)
          /\ Observe("stale", r,
                     IF wrap[x.oldWrap].cur["v"] # value THEN 1 ELSE 0, 0,
                     << <<Append(x.path, "v"), value>> >>)
    /\ UNCHANGED <<held, repl>>

\* batch(fn): entry
BatchEnter ==
    /\ \E s \in StoreIds : Ready(s)
    /\ batchDepth < MaxDepth
    /\ LET r == batchEnter(World)
       IN /\ Commit(r)
          /\ last' = Seen("enter", r, 0, 0, <<>>)
          /\ streak' = [k |-> 0, base |-> r.counter]
    /\ acc' = IF batchDepth = 0 THEN [base |-> counter, changes |-> 0, updates |-> 0]
              ELSE acc
    /\ UNCHANGED <<held, repl, since>>

\* batch(fn): fn has returned, the finally block runs.  When this is the
\* outermost batch, last tells what the whole batch did, and the batch counts
\* as called on the stores whose updates it holds.
BatchExit ==
    /\ batchDepth > 0
    /\ LET r == batchExit([World EXCEPT !.on =
                              IF batchDepth = 1
                              THEN {pendingUpdates[i].store : i \in 1..Len(pendingUpdates)}
                              ELSE {}])
       IN /\ Commit(r)
          /\ last' = [Seen("batch", r, acc.changes, acc.updates, <<>>) EXCEPT
                         !.delta = IF batchDepth = 1 THEN delivered(acc.base, r.counter)
                                   ELSE @]
          /\ since' = Notified(r)
          /\ streak' = [k |-> 0, base |-> r.counter]
    /\ UNCHANGED <<held, repl, acc>>

\* batch(fn): fn throws, the finally block runs
BatchThrows ==
    /\ batchDepth > 0
    /\ LET r == batchExitThrowing([World EXCEPT !.on =
                                      IF batchDepth = 1
                                      THEN {pendingUpdates[i].store : i \in 1..Len(pendingUpdates)}
                                      ELSE {}])
       IN /\ Commit(r)
          /\ last' = [Seen("abort", r, acc.changes, acc.updates, <<>>) EXCEPT
                         !.delta = IF batchDepth = 1 THEN delivered(acc.base, r.counter)
                                   ELSE @]
          /\ since' = Notified(r)
          /\ streak' = [k |-> 0, base |-> r.counter]
    /\ UNCHANGED <<held, repl, acc>>

\* store.$merge(partial)
Merge(s, partial) ==
    /\ Ready(s)
    /\ LET r == merge(Called(s), s, partial)
       IN /\ Budget(r)
          /\ Commit(r)
          /\ Observe("merge", r, countChanges(World, s, asWrites(partial), 1), 0,
                     asWrites(partial))
    /\ UNCHANGED <<held, repl>>

\* store.$update()
Update(s) ==
    /\ Ready(s)
    /\ LET r == update(Called(s), s)
       IN Budget(r) /\ Commit(r) /\ Observe("update", r, 0, 1, <<>>)
    /\ UNCHANGED <<held, repl>>

\* store.method(x, y), a user-supplied method
CallMethod(s, x, y) ==
    /\ Ready(s)
    /\ \A i \in 1..Len(methodBody(x, y)) : canWrite(World, s, methodBody(x, y)[i][1])
    /\ LET r == callMethod(Called(s), s, x, y)
       IN /\ Budget(r)
          /\ Commit(r)
          /\ Observe("method", r, countChanges(World, s, methodBody(x, y), 1), 0,
                     methodBody(x, y))
    /\ UNCHANGED <<held, repl>>

\* store.<path>.push(x), store.<path>.splice(0, 1)
ArrayMutate(s, path, m, x) ==
    /\ Ready(s)
    /\ LET r0 == readPath(World, s, path)
       IN /\ r0.ok /\ r0.ret[1] = "arr"
          /\ IF m = "push" THEN Len(r0.w.raw[r0.ret]) < MaxLen
             ELSE Len(r0.w.raw[r0.ret]) > 0
    /\ LET r == arrayMutate(Called(s), s, path, m, x)
       IN Budget(r) /\ Commit(r) /\ Observe("mutate", r, 0, 0, <<<<path, x>>>>)
    /\ UNCHANGED <<held, repl>>

\* store.$persist()
Persist(s) ==
    /\ Ready(s) /\ setItems < MaxSaves
    /\ LET r == persist(Called(s), s)
       IN Commit(r) /\ Observe("persist", r, 0, 0, <<>>)
    /\ UNCHANGED <<held, repl>>

\* store.$clearPersist()
ClearPersist(s) ==
    /\ Ready(s)
    /\ LET r == clearPersist(Called(s), s)
       IN Commit(r) /\ Observe("clear", r, 0, 0, <<>>)
    /\ UNCHANGED <<held, repl>>

\* store.$clearPersist() on a reachable backend, remembering that no state
\* notification has followed it yet and whether a debounce timer was armed
ClearPersistTracked(s) ==
    /\ Ready(s)
    /\ LET r == clearPersist(Called(s), s)
       IN /\ Commit(r)
          /\ last' = Seen("clear", r, 0, 0, <<>>)
          /\ since' = [Notified(r) EXCEPT ![s].cleared =
                           IF \E t \in timers : t.store = s THEN "armed" ELSE "idle"]
          /\ streak' = [k |-> 0, base |-> r.counter]
    /\ UNCHANGED <<held, repl, acc>>

\* signal.subscribe(l), for a listener subscribed or not
Subscribe(s, l) ==
    /\ Ready(s)
    /\ LET r == Signal_subscribe(Called(s), s, l)
       IN Commit(r) /\ Observe("subscribe", r, 0, 0, <<l>>)
    /\ UNCHANGED <<held, repl>>

\* a call of a closure that signal.subscribe(l) returned, the first or a
\* later one
Unsubscribe(s, l) ==
    /\ Ready(s) /\ l \in store[s].unsubscribes
    /\ LET r == Signal_unsubscribe(Called(s), s, l)
       IN Commit(r) /\ Observe("unsubscribe", r, 0, 0, <<l>>)
    /\ UNCHANGED <<held, repl>>

\* signal.set(v); the listeners have been invoked at most MaxUid times
SignalSet(s, v) ==
    /\ Ready(s)
    /\ \A l \in Subscribers : counter[s][l] < MaxUid
    /\ LET r == Signal_set(Called(s), s, v)
       IN Commit(r) /\ Observe("set", r, 0, 0, <<v>>)
    /\ UNCHANGED <<held, repl>>

\* a consumer mounts at any time
MountLater(s, l) ==
    /\ Ready(s) /\ l \notin mounted(s)
    /\ LET r == useStore(Called(s), s, l)
       IN Commit(r) /\ Observe("mount", r, 0, 0, <<l>>)
    /\ UNCHANGED <<held, repl>>

\* a mounted consumer unmounts
Unmount(s, l) ==
    /\ Ready(s) /\ l \in mounted(s)
    /\ LET r == unmount(Called(s), s, l)
       IN Commit(r) /\ Observe("unmount", r, 0, 0, <<l>>)
    /\ UNCHANGED <<held, repl>>

\* the storage backend starts to fail (quota exceeded, access denied): every
\* call of getItem, setItem and removeItem throws from now on
StorageBreaks ==
    /\ \E s \in StoreIds : Ready(s)
    /\ ~storage.fails
    /\ LET r == [World EXCEPT !.storage.fails = TRUE]
       IN Commit(r) /\ Observe("break", r, 0, 0, <<>>)
    /\ UNCHANGED <<held, repl>>

\* one unit of time passes; a timer that is due fires first
Tick ==
    /\ \E s \in StoreIds : Ready(s)
    /\ \A t \in timers : t.left > 0
    /\ timers' = {[t EXCEPT !.left = @ - 1] : t \in timers}
    /\ since' = [s \in StoreIds |->
                    [since[s] EXCEPT !.t = IF @ <= MaxDebounce THEN @ + 1 ELSE @]]
    /\ last' = Seen("tick", World, 0, 0, <<>>)
    /\ streak' = [k |-> 0, base |-> counter]
    /\ UNCHANGED <<batchDepth, pendingUpdates, globalUid, reactiveCache, raw, wrap,
                   store, storage, counter, setItems, held, repl, acc, reactive>>

\* index.ts:296  the debounce timer t expires: saveToStorage runs
TimerFire(t) ==
    /\ t \in timers /\ t.left = 0
    /\ batchDepth = 0
    /\ LET r == saveToStorage([Called(t.store) EXCEPT !.timers = @ \ {t}], t.store)
       IN Commit(r) /\ Observe("fire", r, 0, 0, <<>>)
    /\ UNCHANGED <<held, repl>>

\* new ReactiveStore(initialData)
ProxyConstruct(initialData) ==
    /\ reactive.pc = "new"
    /\ reactive' = Done("construct", ReactiveStore_new(reactive, initialData))
    /\ UNCHANGED coreVars

\* store.subscribe(c)
ProxySubscribe(c) ==
    /\ reactive.pc = "ready"
    /\ c \notin {reactive.subscribers[i] : i \in 1..Len(reactive.subscribers)}
    /\ reactive' = [Done("subscribe", ReactiveStore_subscribe(reactive, c))
                        EXCEPT !.frozen[c] = -1]
    /\ UNCHANGED coreVars

\* the function returned by store.subscribe(c) is called; frozen[c] keeps
\* the number of calls c had received by then
ProxyUnsubscribe(c) ==
    /\ reactive.pc = "ready"
    /\ c \in reactive.unsubscribes
    /\ reactive' = [Done("unsubscribe", ReactiveStore_unsubscribe(reactive, c))
                        EXCEPT !.frozen[c] = reactive.calls[c]]
    /\ UNCHANGED coreVars

\* proxy.<path> = v; the callbacks have been called at most MaxUid times
ProxyWrite(path, v) ==
    /\ reactive.pc = "ready"
    /\ \A c \in DOMAIN reactive.calls : reactive.calls[c] <= MaxUid
    /\ reactive' = Done("write", proxySet(reactive, path, v))
    /\ UNCHANGED coreVars

\* ReactiveStore.ts:56-63  the get trap returns a proxy for path when the
\* data holds an object there
proxyAt(rs, path) == isObject(getNestedValue(rs.data, path))

\* proxy.<path>.set(value)
ProxySetMethod(path, value) ==
    /\ reactive.pc = "ready"
    /\ proxyAt(reactive, path)
    /\ \A c \in DOMAIN reactive.calls : reactive.calls[c] <= MaxUid
    /\ reactive' = [Done("set", proxyMethodSet(reactive, path, value))
                        EXCEPT !.old = reactive.data, !.path = path, !.arg = value]
    /\ UNCHANGED coreVars

\* proxy.<path>.merge(partial)
ProxyMerge(path, partial) ==
    /\ reactive.pc = "ready"
    /\ proxyAt(reactive, path)
    /\ \A c \in DOMAIN reactive.calls : reactive.calls[c] <= MaxUid
    /\ reactive' = [Done("merge", proxyMethodMerge(reactive, path, partial))
                        EXCEPT !.old = reactive.data, !.path = path, !.arg = partial]
    /\ UNCHANGED coreVars

\* createStore(initialData, methodCreators) of createStore.ts
ProxyCreateStore(initialData, methodNames) ==
    /\ reactive.pc = "new"
    /\ reactive' = Done("create", createProxyStore(reactive, initialData, methodNames))
    /\ UNCHANGED coreVars

\* Store.n = v after createStore; touched records that a state property
\* has changed since createStore returned
ProxyWriteState(v) ==
    /\ reactive.pc = "ready"
    /\ \A c \in DOMAIN reactive.calls : reactive.calls[c] <= MaxUid
    /\ LET rs == Done("write", proxySet(reactive, <<"n">>, v))
       IN reactive' = [rs EXCEPT !.touched = @ \/ rs.changed]
    /\ UNCHANGED coreVars

\* the zero-delay timer t fires
ProxyTimerFire(t) ==
    /\ t \in reactive.timers
    /\ reactive' = Done("fire", timeoutCallback(reactive, t))
    /\ UNCHANGED coreVars

-----------------------------------------------------------------------------
(* Specifications *)

\* the paths the caller writes in Spec
NotifyPaths == {<<"n">>, <<"a">>, <<"a", "v">>}

Next ==
    \/ \E s \in StoreIds : Construct(s)
    \/ \E s \in StoreIds, l \in Subscribers : Mount(s, l)
    \/ \E s \in StoreIds, p \in NotifyPaths : \E v \in ValuesFor(p) : Write(s, p, v)
    \/ BatchEnter
    \/ BatchExit
    \/ \E s \in StoreIds, partial \in Partials : Merge(s, partial)
    \/ \E s \in StoreIds : Update(s)
    \/ \E s \in StoreIds, x \in Prims, y \in Prims : CallMethod(s, x, y)

Init == InitWith({[a |-> Obj(1), b |-> Obj(2), n |-> Prim(0)]}, {NoPersist}, {NoItem})

\* Notification counting: writes, batches, $merge, $update and methods on a
\* store without persistence
Spec == Init /\ [][Next]_vars

WrapPaths == {<<"a">>, <<"b">>, <<"a", "v">>, <<"a", "p">>, <<"a", "p", "v">>}

ObjectPaths == {<<"a">>, <<"b">>, <<"a", "p">>}

ReadPaths == {<<"a", "p">>}

NextWrap ==
    \/ \E s \in StoreIds : Construct(s)
    \/ \E s \in StoreIds : Mount(s, "L1")
    \/ \E s \in StoreIds, p \in WrapPaths : \E v \in ValuesFor(p) : WriteTracked(s, p, v)
    \/ \E s \in StoreIds, p \in ReadPaths : Read(s, p)
    \/ \E s \in StoreIds, p \in ObjectPaths : Hold(s, p)

InitWrap == InitWith(InitialStates, {NoPersist}, {NoItem})

\* Wrapper identity: reads, kept references and replacements, also with one
\* raw object under two root keys
SpecWrap == InitWrap /\ [][NextWrap]_vars

\* JSON texts found in storage when the store is created
Snapshot1 == {<<<<"n">>, Prim(1)>>}

Snapshot2 ==
    {<<<<"n">>, Prim(1)>>, <<<<"a">>, JsonObject>>, <<<<"a", "v">>, Prim(1)>>,
     <<<<"a", "p">>, JsonObject>>, <<<<"a", "p", "v">>, Prim(1)>>}

Snapshot3 ==
    {<<<<"a">>, Prim(1)>>, <<<<"n">>, JsonObject>>, <<<<"n", "v">>, Prim(1)>>}

Items == {NoItem} \cup {[present |-> TRUE, data |-> d] : d \in {Snapshot1, Snapshot2, Snapshot3}}

Persists == {[enabled |-> TRUE, key |-> "k1", debounce |-> d] : d \in 0..MaxDebounce}

PersistPaths == {<<"n">>, <<"a">>, <<"a", "v">>}

NextPersist ==
    \/ \E s \in StoreIds : Construct(s)
    \/ \E s \in StoreIds, p \in PersistPaths : \E v \in ValuesFor(p) : Write(s, p, v)
    \/ Tick
    \/ \E t \in timers : TimerFire(t)

InitPersist == InitWith({[a |-> Obj(1), b |-> Obj(2), n |-> Prim(0)]}, Persists, Items)

\* Persistence: restore at construction, saves driven by notifications and
\* by the debounce timer
SpecPersist == InitPersist /\ [][NextPersist]_vars

NextSave ==
    \/ NextPersist
    \/ \E s \in StoreIds : Update(s)
    \/ \E s \in StoreIds : Persist(s)

InitSave == InitWith({[a |-> Obj(1), b |-> Obj(2), n |-> Prim(0)]}, Persists, {NoItem})

\* Persistence with $update and $persist, on a working backend
SpecSave == InitSave /\ [][NextSave]_vars

NextOff ==
    \/ \E s \in StoreIds : Construct(s)
    \/ \E s \in StoreIds : Mount(s, "L1")
    \/ \E s \in StoreIds, p \in PersistPaths : \E v \in ValuesFor(p) : Write(s, p, v)
    \/ \E s \in StoreIds : Update(s)
    \/ \E s \in StoreIds, partial \in Partials : Merge(s, partial)
    \/ \E s \in StoreIds : Persist(s)
    \/ \E s \in StoreIds : ClearPersist(s)

InitOff ==
    InitWith({[a |-> Obj(1), b |-> Obj(2), n |-> Prim(0)]}, {NoPersist},
             {NoItem, [present |-> TRUE, data |-> Snapshot1]})

\* A store without persistence next to a storage backend that may hold an
\* item under the store's key
SpecOff == InitOff /\ [][NextOff]_vars

\* assignments that change the kind of value a property holds, or replace
\* an array
ShapeWrites ==
    {<<<<"items">>, v>> : v \in {Arr(1), Obj(4)}}
    \cup {<<<<"n">>, v>> : v \in {Prim(1), Obj(3)}}
    \cup {<<<<"n", "v">>, v>> : v \in Prims}
    \cup {<<<<"a", "l">>, v>> : v \in {Arr(2), Obj(4)}}
    \cup {<<<<"a", "l", "v">>, v>> : v \in Prims}

ShapePaths == {x[1] : x \in ShapeWrites}

ArrayPaths == {<<"items">>, <<"a", "l">>}

NextShape ==
    \/ \E s \in StoreIds : Construct(s)
    \/ \E s \in StoreIds : Mount(s, "L1")
    \/ \E s \in StoreIds, x \in ShapeWrites : Write(s, x[1], x[2])
    \/ \E s \in StoreIds, p \in ArrayPaths, m \in {"push", "splice"} :
           ArrayMutate(s, p, m, Prim(1))

InitShape ==
    InitFrom(ArrayObjects @@ CallerObjects,
             {[a |-> Obj(5), items |-> Arr(2), n |-> Prim(0)]}, {NoPersist},
             {[available |-> TRUE, fails |-> FALSE, items |-> [k \in {"k1"} |-> NoItem]]})

\* Arrays in the state, and properties whose kind of value changes after
\* construction
SpecShape == InitShape /\ [][NextShape]_vars

\* a snapshot with a key that initialState does not have
Snapshot4 == {<<<<"n">>, Prim(1)>>, <<<<"x">>, Prim(1)>>}

RestoreItems == {[present |-> TRUE, data |-> d] : d \in {Snapshot1, Snapshot2, Snapshot4}}

NextRestore ==
    \/ \E s \in StoreIds : Construct(s)
    \/ \E s \in StoreIds : Mount(s, "L1")
    \/ \E s \in StoreIds, p \in PersistPaths : \E v \in ValuesFor(p) : Write(s, p, v)

InitRestore ==
    InitWith({[a |-> Obj(1), b |-> Obj(2), n |-> Prim(0)]},
             {[enabled |-> TRUE, key |-> "k1", debounce |-> 0]}, RestoreItems)

\* A store restored from a snapshot, then written
SpecRestore == InitRestore /\ [][NextRestore]_vars

\* storage backends, working or failing from the start, holding nothing, a
\* snapshot, or a text that is not JSON
Storages ==
    {[available |-> TRUE, fails |-> f, items |-> [k \in {"k1"} |-> it]] :
        f \in BOOLEAN,
        it \in {NoItem, [present |-> TRUE, data |-> Snapshot1],
                [present |-> TRUE, data |-> Malformed]}}

FaultPersists == {[enabled |-> TRUE, key |-> "k1", debounce |-> d] : d \in 0..1}

FaultPaths == {<<"n">>, <<"a", "v">>}

NextFault ==
    \/ \E s \in StoreIds : Construct(s)
    \/ \E s \in StoreIds : Mount(s, "L1")
    \/ \E s \in StoreIds, p \in FaultPaths : \E v \in ValuesFor(p) : Write(s, p, v)
    \/ \E s \in StoreIds : Write(s, <<"n">>, BigInt)
    \/ \E s \in StoreIds : Persist(s)
    \/ \E s \in StoreIds : ClearPersist(s)
    \/ StorageBreaks
    \/ timers # {} /\ Tick
    \/ \E t \in timers : TimerFire(t)

InitFault ==
    InitFrom(CallerObjects, {[a |-> Obj(1), b |-> Obj(2), n |-> Prim(0)]},
             FaultPersists, Storages)

\* Storage at its limits: a failing backend, values that do not serialize
\* and texts that do not parse
SpecFault == InitFault /\ [][NextFault]_vars

\* two stores created independently: no raw object is found in both
TwoStores ==
    {(1 :> NewStore([a |-> Obj(1), n |-> Prim(0)], NoPersist)) @@
     (2 :> NewStore([a |-> Obj(2), n |-> Prim(0)], NoPersist))}

TwoPaths == {<<"n">>, <<"a", "v">>}

\* the values written to the two stores
TwoValues == {Prim(0), Prim(1)}

TwoPartials == {<<<<"n", x>>>> : x \in TwoValues}

\* the stores are created one after the other, each with one consumer, and
\* are operated on once all of them are in use
NextTwo ==
    \/ \E s \in StoreIds : (\A t \in 1..(s - 1) : mounted(t) # {}) /\ Construct(s)
    \/ \E s \in StoreIds : Mount(s, "L1")
    \/ /\ \A t \in StoreIds : mounted(t) # {}
       /\ \/ \E s \in StoreIds, p \in TwoPaths, v \in TwoValues : Write(s, p, v)
          \/ BatchEnter
          \/ BatchExit
          \/ \E s \in StoreIds, partial \in TwoPartials : Merge(s, partial)
          \/ \E s \in StoreIds : Update(s)

InitTwo ==
    InitOf(CallerObjects, TwoStores,
           {[available |-> TRUE, fails |-> FALSE, items |-> [k \in {"k1"} |-> NoItem]]})

\* Two stores in one process: they share globalUid, batchDepth,
\* pendingUpdates and reactiveCache
SpecTwo == InitTwo /\ [][NextTwo]_vars

NextSignal ==
    \/ \E s \in StoreIds : Construct(s)
    \/ \E s \in StoreIds, l \in Subscribers : Subscribe(s, l)
    \/ \E s \in StoreIds, l \in Subscribers : Unsubscribe(s, l)
    \/ \E s \in StoreIds, v \in 0..MaxUid : SignalSet(s, v)

InitSignal == InitWith({[a |-> Obj(1), b |-> Obj(2), n |-> Prim(0)]}, {NoPersist}, {NoItem})

\* The Signal class on its own: set, subscribe and the closures subscribe
\* returns, called in any order
SpecSignal == InitSignal /\ [][NextSignal]_vars

NextMount ==
    \/ \E s \in StoreIds : Construct(s)
    \/ \E s \in StoreIds, l \in Subscribers : MountLater(s, l)
    \/ \E s \in StoreIds, l \in Subscribers : Unmount(s, l)
    \/ \E s \in StoreIds, p \in FaultPaths : \E v \in ValuesFor(p) : Write(s, p, v)
    \/ \E s \in StoreIds : Update(s)

InitMount == InitWith({[a |-> Obj(1), b |-> Obj(2), n |-> Prim(0)]}, {NoPersist}, {NoItem})

\* Consumers that mount and unmount while the state changes
SpecMount == InitMount /\ [][NextMount]_vars

NextThrow ==
    \/ \E s \in StoreIds : Construct(s)
    \/ \E s \in StoreIds, l \in Subscribers \cup {Thrower} :
           l \notin listenersOf(World, s) /\ Subscribe(s, l)
    \/ \E s \in StoreIds, p \in FaultPaths : \E v \in ValuesFor(p) : Write(s, p, v)
    \/ \E s \in StoreIds : Update(s)
    \/ BatchEnter
    \/ BatchExit
    \/ BatchThrows

InitThrow == InitWith({[a |-> Obj(1), b |-> Obj(2), n |-> Prim(0)]}, {NoPersist}, {NoItem})

\* Exceptions: a listener that throws, and a batch whose fn throws
SpecThrow == InitThrow /\ [][NextThrow]_vars

CreatorNames == {"m1", "m2", "m3"}

\* the methodCreators objects: up to three keys in any order, each with a
\* creator or with a falsy value
CreatorLists ==
    {mc \in UNION {[1..n -> [name : CreatorNames, present : BOOLEAN]] : n \in 0..3} :
        \A i, j \in 1..Len(mc) : mc[i].name = mc[j].name => i = j}

NextCreators ==
    \/ \E s \in StoreIds : Construct(s)
    \/ \E s \in StoreIds : Mount(s, "L1")
    \/ \E s \in StoreIds, x \in Prims, y \in Prims :
           "m1" \in DOMAIN store[s].methods /\ CallMethod(s, x, y)

InitCreators ==
    InitOf(CallerObjects,
           {(1 :> [NewStore([a |-> Obj(1), b |-> Obj(2), n |-> Prim(0)], NoPersist)
                      EXCEPT !.methodCreators = mc]) : mc \in CreatorLists},
           {[available |-> TRUE, fails |-> FALSE, items |-> [k \in {"k1"} |-> NoItem]]})

\* Stores created with every methodCreators object of up to three keys
SpecCreators == InitCreators /\ [][NextCreators]_vars

ProxyPaths == {<<"n">>, <<"u", "v">>}

\* the initial data {n: 0, d: 0, u: {v: 0}}
ProxyInitial ==
    PlainObject([n |-> Prim(0), d |-> Prim(0),
                 u |-> PlainObject([v |-> Prim(0)])])

NextProxy ==
    \/ ProxyConstruct(ProxyInitial)
    \/ \E c \in Callbacks \cup {Deriver} : ProxySubscribe(c)
    \/ \E p \in ProxyPaths, v \in Prims : ProxyWrite(p, v)
    \/ \E t \in reactive.timers : ProxyTimerFire(t)

InitProxy == InitWith({[a |-> Obj(1), b |-> Obj(2), n |-> Prim(0)]}, {NoPersist}, {NoItem})

\* The Proxy-based ReactiveStore: writes through the proxy and the
\* zero-delay timer that notifies the subscribers
SpecProxy == InitProxy /\ [][NextProxy]_vars

NextUnsub ==
    \/ ProxyConstruct(ProxyInitial)
    \/ \E c \in Callbacks : ProxySubscribe(c)
    \/ \E c \in Callbacks : ProxyUnsubscribe(c)
    \/ \E v \in Prims : ProxyWrite(<<"n">>, v)
    \/ \E t \in reactive.timers : ProxyTimerFire(t)

\* The Proxy-based ReactiveStore with subscribers that come and go
SpecUnsub == InitProxy /\ [][NextUnsub]_vars

\* the initial data {n: 0, u: {v: 0, p: {x: 0, y: 0}}}
NestedInitial ==
    PlainObject([n |-> Prim(0),
                 u |-> PlainObject([v |-> Prim(0),
                                    p |-> PlainObject([x |-> Prim(0), y |-> Prim(0)])])])

\* the arguments of merge, by the path of the proxy
MergePartials(path) ==
    IF path = <<"u">>
    THEN {PlainObject(EmptyFn),
          PlainObject([v |-> Prim(1)]),
          PlainObject([p |-> PlainObject([x |-> Prim(1)])]),
          PlainObject([v |-> Prim(0), p |-> PlainObject([y |-> Prim(1)])])}
    ELSE {PlainObject([x |-> Prim(0)]), PlainObject([y |-> Prim(1), z |-> Prim(1)])}

\* the arguments of set, by the path of the proxy
SetValues(path) ==
    IF path = <<"u">>
    THEN {PlainObject([v |-> Prim(1),
                       p |-> PlainObject([x |-> Prim(1), y |-> Prim(1)])]),
          PlainObject([v |-> Prim(0), p |-> PlainObject([x |-> Prim(0)])])}
    ELSE {PlainObject([x |-> Prim(1)]), PlainObject([x |-> Prim(0), y |-> Prim(0)])}

NestedPaths == {<<"u">>, <<"u", "p">>}

NextNested ==
    \/ ProxyConstruct(NestedInitial)
    \/ ProxySubscribe("S1")
    \/ \E p \in NestedPaths : \E v \in SetValues(p) : ProxySetMethod(p, v)
    \/ \E p \in NestedPaths : \E v \in MergePartials(p) : ProxyMerge(p, v)
    \/ \E v \in Prims : ProxyWrite(<<"u", "p", "x">>, v)
    \/ \E t \in reactive.timers : ProxyTimerFire(t)

\* The Proxy-based ReactiveStore: the set and merge methods of nested proxies
SpecNested == InitProxy /\ [][NextNested]_vars

\* the keys of methodCreators, in the order of Object.keys
MethodLists == {<<>>, <<"inc">>, <<"inc", "dec">>}

NextCreate ==
    \/ \E m \in MethodLists : ProxyCreateStore(ProxyInitial, m)
    \/ \E c \in Callbacks : ProxySubscribe(c)
    \/ \E v \in Prims : ProxyWriteState(v)
    \/ \E t \in reactive.timers : ProxyTimerFire(t)

\* The Proxy-based createStore, subscribers registered after it returns and
\* writes of the state property n
SpecCreate == InitProxy /\ [][NextCreate]_vars

\* root writes and writes through the wrappers of a and a.p
NextLoss ==
    \/ \E s \in StoreIds : (\A t \in 1..(s - 1) : Ready(t)) /\ Construct(s)
    \/ \E s \in StoreIds, l \in {"L1", Thrower} :
           l \notin listenersOf(World, s) /\ Subscribe(s, l)
    \/ /\ \A t \in StoreIds : mounted(t) # {}
       /\ \/ \E s \in StoreIds, v \in TwoValues : Write(s, <<"n">>, v)
          \/ BatchEnter
          \/ BatchExit

InitLoss ==
    InitOf(CallerObjects, TwoStores,
           {[available |-> TRUE, fails |-> FALSE, items |-> [k \in {"k1"} |-> NoItem]]})

\* Two stores written in one batch, with listeners that may throw
SpecLoss == InitLoss /\ [][NextLoss]_vars

NextStale ==
    \/ \E s \in StoreIds : Construct(s)
    \/ \E s \in StoreIds : Mount(s, "L1")
    \/ \E s \in StoreIds, p \in WrapPaths : \E v \in ValuesFor(p) : WriteTracked(s, p, v)
    \/ \E s \in StoreIds, p \in ObjectPaths : Hold(s, p)
    \/ \E x \in repl, v \in Prims : StaleWrite(x, v)

InitStale == InitWith({[a |-> Obj(1), b |-> Obj(2), n |-> Prim(0)]}, {NoPersist}, {NoItem})

\* Wrappers kept by the caller across the replacement of their property
SpecStale == InitStale /\ [][NextStale]_vars

NextSelf ==
    \/ \E s \in StoreIds : Construct(s)
    \/ \E s \in StoreIds, l \in Subscribers : Mount(s, l)
    \/ \E s \in StoreIds, p \in FaultPaths : \E v \in ValuesFor(p) : Write(s, p, v)
    \/ \E s \in StoreIds, p \in {<<"a">>, <<"a", "p">>} : Reassign(s, p)

InitSelf == InitWith({[a |-> Obj(1), b |-> Obj(2), n |-> Prim(0)]}, {NoPersist}, {NoItem})

\* Assignments of a property's own wrapper to the property
SpecSelf == InitSelf /\ [][NextSelf]_vars

NextClear ==
    \/ \E s \in StoreIds : Construct(s)
    \/ \E s \in StoreIds, p \in FaultPaths : \E v \in ValuesFor(p) : Write(s, p, v)
    \/ \E s \in StoreIds : ClearPersistTracked(s)
    \/ timers # {} /\ Tick
    \/ \E t \in timers : TimerFire(t)

InitClear == InitWith({[a |-> Obj(1), b |-> Obj(2), n |-> Prim(0)]}, Persists, {NoItem})

\* $clearPersist between the writes and the debounce timers of a persisted
\* store
SpecClear == InitClear /\ [][NextClear]_vars

FrameWrites ==
    {<<<<"n">>, Prim(0)>>, <<<<"n">>, Prim(1)>>, <<<<"a">>, Obj(2)>>,
     <<<<"a", "v">>, Prim(1)>>, <<<<"a", "p">>, Obj(4)>>, <<<<"a", "p", "v">>, Prim(1)>>}

FramePartials == {<<<<"n", Prim(1)>>>>, <<<<"n", Prim(0)>>, <<"a", Obj(2)>>>>}

NextFrame ==
    \/ \E s \in StoreIds : Construct(s)
    \/ \E s \in StoreIds : Mount(s, "L1")
    \/ \E s \in StoreIds, x \in FrameWrites : Write(s, x[1], x[2])
    \/ \E s \in StoreIds, partial \in FramePartials : Merge(s, partial)
    \/ \E s \in StoreIds : Update(s)
    \/ \E s \in StoreIds : Persist(s)

InitFrame ==
    InitWith({[a |-> Obj(1), b |-> Obj(2), n |-> Prim(0)]},
             {[enabled |-> TRUE, key |-> "k1", debounce |-> 0]},
             {NoItem, [present |-> TRUE, data |-> Snapshot2]})

\* Every operation of a persisted store, restored or not, next to the
\* objects the caller passed to createStore
SpecFrame == InitFrame /\ [][NextFrame]_vars

NextReenter ==
    \/ \E s \in StoreIds : Construct(s)
    \/ \E s \in StoreIds, l \in {"L1", Writer, Batcher} :
           l \notin listenersOf(World, s) /\ Subscribe(s, l)
    \/ \E s \in StoreIds, p \in FaultPaths : \E v \in ValuesFor(p) : Write(s, p, v)
    \/ \E s \in StoreIds : Update(s)
    \/ BatchEnter
    \/ BatchExit

InitReenter == InitWith({[a |-> Obj(1), b |-> Obj(2), n |-> Prim(0)]}, {NoPersist}, {NoItem})

\* Listeners that write to the store while they are notified
SpecReenter == InitReenter /\ [][NextReenter]_vars

-----------------------------------------------------------------------------
(* Claims *)

\* every consumer of store s got exactly n notifications in the last operation
Got(s, n) == \A l \in mounted(s) : last.delta[s][l] = n

\* C1: when an outermost batch(fn) that issued N >= 1 value-changing property
\* writes (and nothing else that notifies) has exited, each subscriber of the
\* store has received exactly 1 notification in total.
C1_OneNotificationPerBatch ==
    (last.op = "batch" /\ last.depth = 1 /\ last.changes >= 1 /\ last.updates = 0)
        => \A s \in StoreIds : Got(s, 1)

\* C2: $merge(partial) outside any batch, every key's value differing from the
\* current one, notifies each subscriber exactly once, and afterwards every
\* key of partial reads the new value through the store.
C2_MergeOneNotification ==
    (last.op = "merge" /\ last.depth = 0 /\ last.changes = Len(last.writes))
        => \A s \in StoreIds :
              /\ Got(s, 1)
              /\ \A i \in 1..Len(last.writes) :
                    readsAs(World, s, last.writes[i][1], last.writes[i][2])

\* C3: a user-supplied method that performs N >= 2 value-changing writes,
\* called outside any batch, notifies each subscriber exactly once.
C3_MethodsBatched ==
    (last.op = "method" /\ last.depth = 0 /\ last.changes >= 2)
        => \A s \in StoreIds : Got(s, 1)

\* C4: assigning to a root or nested property the value it already holds
\* notifies nobody and leaves the version unchanged (now, and at the flush:
\* nothing is queued), inside or outside a batch.
C4_EqualValueIsNoOp ==
    (last.op = "write" /\ last.changes = 0)
        => /\ \A s \in StoreIds : Got(s, 0)
           /\ last.moved = {}
           /\ last.queued = 0

C4_Witness ==
    /\ last.op = "write" /\ last.changes = 0 /\ last.depth = 1
    /\ Len(last.writes[1][1]) = 2
    /\ mounted(1) = Subscribers

\* C5: k >= 1 value-changing writes issued one after another, each outside
\* any batch, deliver exactly k notifications to each subscriber, one per
\* write and before that write returns, and the property holds what was
\* written.
C5_OneNotificationPerWrite ==
    /\ \A s \in StoreIds : \A l \in mounted(s) :
          counter[s][l] - streak.base[s][l] = streak.k
    /\ (last.op = "write" /\ last.depth = 0 /\ last.changes = 1)
          => \A s \in StoreIds :
                /\ Got(s, 1)
                /\ readsAs(World, s, last.writes[1][1], last.writes[1][2])

C5_Witness ==
    /\ streak.k = 2
    /\ last.op = "write" /\ last.changes = 1
    /\ mounted(1) = Subscribers

\* C6: one value-changing write to a nested property through the reactive
\* wrapper, outside a batch, makes a following read of that property through
\* the store return the written value and notifies exactly once, at every
\* nesting depth.
C6_NestedWriteReadBack ==
    (last.op = "write" /\ last.depth = 0 /\ last.changes = 1
        /\ Len(last.writes[1][1]) >= 2)
        => \A s \in StoreIds :
              /\ Got(s, 1)
              /\ readsAs(World, s, last.writes[1][1], last.writes[1][2])

C6_Witness ==
    /\ last.op = "write" /\ last.changes = 1
    /\ Len(last.writes[1][1]) = 3
    /\ mounted(1) = {"L1"}

\* C7: as long as no operation has replaced a nested-object property (nor a
\* property on the way to it), reading it again returns the wrapper the
\* caller got from it before.
C7_WrapperIdentityStable ==
    held.valid => readPath(World, held.store, held.path).ret = held.ref

\* C8: after a nested-object property was replaced by a different raw object,
\* the cache does not map the old object to its previous wrapper, and a read
\* of the property returns a wrapper of the new object, not the old wrapper.
C8_ReplacedPropertyReadsNew ==
    \A x \in repl :
        LET r == readPath(World, x.store, x.path)
        IN /\ r.ok
           /\ r.ret \in DOMAIN r.w.wrap
           /\ r.w.wrap[r.ret].src = x.new
           /\ r.ret # x.oldWrap
           /\ ~(/\ x.old \in DOMAIN reactiveCache
                /\ reactiveCache[x.old] = x.oldWrap)

\* C9: a store constructed with persistence enabled while storage holds a
\* snapshot S reads, for each key of initialState, S's value when S has the
\* key and initialState's value otherwise.
C9_RestoreThenOverride ==
    \A s \in StoreIds :
        LET st == store[s]
            item == storage.items[st.persist.key]
        IN (last.op = "construct" /\ st.pc = "ready" /\ st.persist.enabled /\ item.present)
            => \A k \in DOMAIN st.initial :
                  readJson(World, s, <<k>>, 3) =
                      IF under(item.data, k) # {} THEN under(item.data, k)
                      ELSE stringify(World, st.initial[k], <<k>>, 3)

C9_Witness ==
    /\ last.op = "construct" /\ store[1].pc = "ready"
    /\ store[1].persist.enabled
    /\ storage.items["k1"] = [present |-> TRUE, data |-> Snapshot2]
    /\ readJson(World, 1, <<"a", "p", "v">>, 3) = {<<<<"a", "p", "v">>, Prim(1)>>}
    /\ readJson(World, 1, <<"b", "v">>, 3) = {<<<<"b", "v">>, Prim(1)>>}

\* no storage write until debounce has elapsed since the last notification of
\* store s, exactly one when it has, made by the one timer armed for it
debounceTiming(s) ==
    LET d == store[s].persist.debounce
        due == {t \in timers : t.store = s}
    IN /\ since[s].t < d =>
             /\ setItems = since[s].base
             /\ \E t \in due : due = {t} /\ t.left = d - since[s].t
       /\ since[s].t = d =>
             \/ setItems = since[s].base /\ \E t \in due : due = {t} /\ t.left = 0
             \/ setItems = since[s].base + 1 /\ due = {}
       /\ since[s].t > d => setItems = since[s].base + 1 /\ due = {}
       /\ last.op = "fire" => since[s].t = d

\* C10: with debounce > 0, the notifications of a burst (each less than
\* debounce after the previous one) cause exactly one storage write: none
\* until debounce has elapsed since the last notification, one when it has,
\* and that write contains the state readable at that moment.
C10_DebounceCoalesces ==
    \A s \in StoreIds :
        (store[s].pc = "ready" /\ store[s].persist.enabled
            /\ store[s].persist.debounce > 0 /\ since[s].seen)
            => /\ debounceTiming(s)
               /\ last.op = "fire" =>
                     /\ storage.items[store[s].persist.key].present
                     /\ storage.items[store[s].persist.key].data = readableState(World, s)

\* The timing half of C10 alone
DebounceTimingHolds ==
    \A s \in StoreIds :
        (store[s].pc = "ready" /\ store[s].persist.enabled
            /\ store[s].persist.debounce > 0 /\ since[s].seen)
            => debounceTiming(s)

\* C11: every storage write of saveToStorage leaves under the key a text with
\* exactly the top-level keys of initialState, each mapped to the value
\* readable through the store at that moment, fields changed through
\* wrappers included.
C11_SavedStateIsReadable ==
    \A s \in StoreIds :
        (store[s].pc = "ready" /\ last.saved >= 1)
            => LET item == storage.items[store[s].persist.key]
               IN /\ item.present
                  /\ {x[1][1] : x \in item.data} = DOMAIN store[s].initial
                  /\ item.data = readableState(World, s)

\* C12: no failure of the storage backend, of serialize or of deserialize
\* reaches the caller of createStore, of a write, of $persist, of
\* $clearPersist or of the timer: each is handed to onError, and a
\* value-changing write still takes effect and notifies every consumer.
C12_StorageFailuresContained ==
    /\ ~last.threw
    /\ last.errors = last.faults
    /\ (last.op = "write" /\ last.depth = 0 /\ last.changes = 1)
          => \A s \in StoreIds :
                /\ Got(s, 1)
                /\ readsAs(World, s, last.writes[1][1], last.writes[1][2])

C12_Witness ==
    /\ last.op = "write" /\ last.changes = 1
    /\ last.faults = 1 /\ last.errors = 1
    /\ mounted(1) = {"L1"} /\ last.delta[1]["L1"] = 1

\* C13: an operation that leaves the batch depth above 0 (a write, $merge,
\* $update, a method, the entry of a batch, the exit of an inner batch)
\* invokes no subscriber and changes no store's version; the exit of an
\* inner batch leaves the pending updates queued, the exit of the outermost
\* one empties the queue.
C13_NoDeliveryInsideBatch ==
    /\ batchDepth > 0
          => /\ \A s \in StoreIds : \A l \in Subscribers : last.delta[s][l] = 0
             /\ last.moved = {}
             /\ last.notified = 0
    /\ (last.op = "batch" /\ batchDepth > 0) => last.queued = 0
    /\ (last.op = "batch" /\ batchDepth = 0) => pendingUpdates = <<>>

C13_Witness ==
    /\ last.op = "batch" /\ batchDepth = 1
    /\ Len(pendingUpdates) >= 1
    /\ mounted(1) = Subscribers

\* C14: each $update() outside a batch gives the store a version id never
\* used before and notifies every subscriber exactly once, whether or not a
\* state value has changed since the previous notification.
C14_UpdateAlwaysNotifies ==
    (last.op = "update" /\ last.depth = 0)
        => \A s \in StoreIds :
              /\ Got(s, 1)
              /\ s \in last.moved
              /\ store[s].value = globalUid /\ store[s].stateId = globalUid

C14_Witness ==
    /\ last.op = "update" /\ last.depth = 0
    /\ globalUid = 2
    /\ store[1].internalState = store[1].initial /\ wrap = EmptyFn
    /\ mounted(1) = Subscribers

\* C15: with persistence enabled and debounce = 0, an operation makes one
\* storage write per notification of the store's signal, $update included,
\* before it returns: no timer is left to do it later.
C15_ImmediateSavePerNotification ==
    \A s \in StoreIds :
        (store[s].pc = "ready" /\ store[s].persist.enabled
            /\ store[s].persist.debounce = 0 /\ last.op # "persist")
            => /\ last.saved = last.notified
               /\ timers = {}

C15_Witness ==
    /\ store[1].pc = "ready" /\ store[1].persist.debounce = 0
    /\ last.op = "update" /\ last.notified = 1 /\ last.saved = 1
    /\ setItems = 2

\* C16: with persistence enabled, $persist() has written the current state
\* to storage when it returns, for every debounce setting and with or
\* without a pending debounce timer.
C16_PersistSavesCurrentState ==
    \A s \in StoreIds :
        (last.op = "persist" /\ store[s].persist.enabled)
            => /\ last.saved = 1
               /\ storage.items[store[s].persist.key].present
               /\ storage.items[store[s].persist.key].data = readableState(World, s)

\* The half of C16 about when the write happens
PersistWritesAtOnce ==
    \A s \in StoreIds :
        (last.op = "persist" /\ store[s].persist.enabled)
            => /\ last.saved = 1
               /\ storage.items[store[s].persist.key].present

\* C17: on a store created with persistence not enabled no operation
\* (construction, writes, $update, $merge, $persist, $clearPersist) calls
\* getItem, setItem or removeItem of the storage backend.
C17_DisabledNeverTouchesStorage ==
    \A s \in StoreIds :
        ~store[s].persist.enabled
            => /\ last.getItems = 0
               /\ last.saved = 0
               /\ last.removeItems = 0

\* C17 for every operation but $clearPersist
DisabledTouchesStorageOnlyInClear ==
    \A s \in StoreIds :
        (~store[s].persist.enabled /\ last.op # "clear")
            => /\ last.getItems = 0
               /\ last.saved = 0
               /\ last.removeItems = 0

C19_GetterWrapsMappings ==
    \A s \in StoreIds :
        store[s].pc = "ready"
            => /\ \A path \in ShapePaths :
                     (canWrite(World, s, path) /\ isNestedObject(slotValue(World, s, path)))
                         => readsAs(World, s, path, slotValue(World, s, path))
               /\ (last.op = "write" /\ last.depth = 0 /\ last.changes = 1)
                     => Got(s, 1)

\* C20: after a restore every top-level key of the merged initial object, a
\* key found only in the snapshot included, has a root accessor: reading it
\* returns the merged value, and a value-changing write to a root key
\* notifies every subscriber.
C20_MergedKeysHaveAccessors ==
    \A s \in StoreIds :
        LET st == store[s]
            data == storage.items[st.persist.key].data
        IN /\ (last.op = "construct" /\ st.pc = "ready")
                 => \A k \in DOMAIN st.initial \cup keysAt(data, <<>>) :
                       /\ k \in DOMAIN st.accessor
                       /\ readJson(World, s, <<k>>, 3) =
                             IF under(data, k) # {} THEN under(data, k)
                             ELSE stringify(World, st.initial[k], <<k>>, 3)
           /\ (last.op = "write" /\ last.depth = 0 /\ last.changes = 1
                  /\ Len(last.writes[1][1]) = 1)
                 => Got(s, 1)

\* the paths of SpecWrap under which one raw object can be found twice
AliasPaths == {<<"a">>, <<"b">>, <<"a", "p">>, <<"b", "p">>}

\* the property at path p of store s exists and holds the raw nested object
\* that the property at path q holds as well
aliased(s, p, q) ==
    /\ p # q
    /\ canWrite(World, s, p) /\ canWrite(World, s, q)
    /\ isNestedObject(slotValue(World, s, p))
    /\ slotValue(World, s, p) = slotValue(World, s, q)

\* C21: when one raw nested object is the value of two properties of a store,
\* a read of one and then of the other return the same wrapper, and a
\* value-changing write to a field through one of them, outside a batch, is
\* read through the other and notifies every subscriber exactly once.
C21_AliasedPathsShareWrapper ==
    \A s \in StoreIds :
        store[s].pc = "ready"
            => /\ \A p, q \in AliasPaths :
                     aliased(s, p, q)
                         => LET r1 == readPath(World, s, p)
                                r2 == readPath(r1.w, s, q)
                            IN /\ r1.ret \in DOMAIN r1.w.wrap
                               /\ r2.ret = r1.ret
               /\ (last.op = "write" /\ last.depth = 0 /\ last.changes = 1
                      /\ Len(last.writes[1][1]) >= 2)
                     => LET path == last.writes[1][1]
                            parent == SubSeq(path, 1, Len(path) - 1)
                        IN \A q \in AliasPaths :
                              aliased(s, parent, q)
                                  => /\ readsAs(World, s, Append(q, path[Len(path)]),
                                                last.writes[1][2])
                                     /\ Got(s, 1)

C21_Witness ==
    /\ last.op = "write" /\ last.depth = 0 /\ last.changes = 1
    /\ last.writes[1][1] = <<"a", "p", "v">>
    /\ store[1].internalState["a"] # store[1].internalState["b"]
    /\ aliased(1, <<"a", "p">>, <<"b", "p">>)
    /\ mounted(1) = {"L1"}

\* C22: of two stores created independently, with no raw object in common,
\* an operation on one (a property write, $update, $merge, a batch holding
\* only its updates) changes neither the version of the other, nor the
\* number of invocations of the other's subscribers, nor a value read
\* through the other.
C22_StoresAreIsolated ==
    \A s, t \in StoreIds :
        (s # t /\ last.on = {s} /\ last.op \in {"write", "update", "merge", "batch"})
            => /\ t \notin last.moved
               /\ \A l \in Subscribers : last.delta[t][l] = 0
               /\ t \notin last.altered

C22_Witness ==
    /\ mounted(1) = {"L1"} /\ mounted(2) = {"L1"}
    /\ last.op = "batch" /\ batchDepth = 0
    /\ last.delta[1]["L1"] = 1 /\ last.delta[2]["L1"] = 0
    /\ counter[2]["L1"] = 1
    /\ store[1].value = 2 /\ store[2].value = 1

\* C28: every version id allocated is greater than all the ids allocated
\* before it in the process, whichever store it is for: an operation gives
\* the stores it notifies ids above the counter it found, one notification
\* per id, the other stores keep versions at or below that counter, and no
\* two stores carry the same id.
C28_VersionIdsIncrease ==
    /\ last.uids >= 0 /\ last.notified = last.uids
    /\ \A s \in StoreIds :
          /\ store[s].value = store[s].stateId
          /\ IF s \in last.moved
             THEN globalUid - last.uids < store[s].value /\ store[s].value <= globalUid
             ELSE store[s].value <= globalUid - last.uids
    /\ \A s, t \in StoreIds :
          (s # t /\ store[s].value > 0) => store[s].value # store[t].value

C28_Witness ==
    /\ last.op = "batch" /\ last.moved = {1, 2}
    /\ globalUid = 2 /\ last.uids = 2
    /\ mounted(1) = {"L1"} /\ mounted(2) = {"L1"}

\* C23: Signal.set(v) leaves v as the signal's value; when v differs from
\* the value it found, every listener subscribed at that moment has been
\* invoked exactly once when set returns; when v is that value, no listener
\* is invoked.
C23_SignalSetNotifiesOnChange ==
    \A s \in StoreIds :
        last.op = "set"
            => /\ store[s].value = last.writes[1]
               /\ IF s \in last.moved
                  THEN /\ last.notified = 1
                       /\ \A l \in Subscribers :
                             last.delta[s][l] = IF l \in mounted(s) THEN 1 ELSE 0
                  ELSE /\ last.notified = 0
                       /\ \A l \in Subscribers : last.delta[s][l] = 0

C23_Witness ==
    /\ last.op = "set" /\ last.moved = {}
    /\ store[1].value = 2
    /\ mounted(1) = Subscribers
    /\ counter[1]["L1"] = 1 /\ counter[1]["L2"] = 1

\* C24: the listeners of a signal form a set: subscribing a listener that is
\* subscribed changes nothing, so a notification invokes it once; the
\* closure subscribe returned removes that listener and no other; calling
\* the closure again changes nothing; a removed listener is not invoked.
C24_SubscribeHasSetSemantics ==
    \A s \in StoreIds :
        LET ls == store[s].listeners
            l == last.writes[1]
        IN /\ \A i, j \in 1..Len(ls) : ls[i] = ls[j] => i = j
           /\ last.op = "subscribe"
                 => l \in mounted(s) /\ last.joined[s] \subseteq {l} /\ last.left[s] = {}
           /\ last.op = "unsubscribe"
                 => l \notin mounted(s) /\ last.left[s] \subseteq {l} /\ last.joined[s] = {}
           /\ (last.op = "set" /\ s \in last.moved)
                 => \A k \in Subscribers :
                       last.delta[s][k] = IF k \in mounted(s) THEN 1 ELSE 0

C24_Witness ==
    /\ last.op = "unsubscribe" /\ last.writes[1] = "L1" /\ last.left[1] = {}
    /\ mounted(1) = {"L2"}
    /\ counter[1]["L1"] = 1 /\ counter[1]["L2"] = 2

\* C29: a consumer has one listener on the store's signal from its mount to
\* its unmount and none afterwards: a mount adds the consumer's listener and
\* nothing else, an unmount removes it and nothing else, no other operation
\* adds or removes a listener, and a state change invokes the listeners of
\* the mounted consumers only, once per notification, without an error.
C29_ListenerLivesWhileMounted ==
    \A s \in StoreIds :
        LET ls == store[s].listeners
            l == last.writes[1]
        IN store[s].pc = "ready"
            => /\ \A i, j \in 1..Len(ls) : ls[i] = ls[j] => i = j
               /\ last.op = "mount"
                     => l \in mounted(s) /\ last.joined[s] = {l} /\ last.left[s] = {}
               /\ last.op = "unmount"
                     => l \notin mounted(s) /\ last.left[s] = {l} /\ last.joined[s] = {}
               /\ last.op \in {"write", "update"}
                     => /\ last.joined[s] = {} /\ last.left[s] = {}
                        /\ ~last.threw
                        /\ \A k \in Subscribers :
                              last.delta[s][k] =
                                  IF k \in mounted(s) THEN last.notified ELSE 0

C29_Witness ==
    /\ last.op = "write" /\ last.notified = 1
    /\ mounted(1) = {"L2"}
    /\ counter[1]["L1"] = 1 /\ counter[1]["L2"] = 2

\* the position of listener l among the listeners of store s
position(s, l) == CHOOSE i \in 1..Len(store[s].listeners) : store[s].listeners[i] = l

\* C25: a notification of a signal with a throwing listener ends the
\* operation that caused it (a write, $update, the exit of a batch) with
\* that exception: the listeners subscribed before the throwing one have
\* been invoked once, those after it not at all, and the written value, the
\* new STATE_ID and the new signal value stay.
C25_ThrowingListenerAbortsFanOut ==
    \A s \in StoreIds :
        /\ (last.notified >= 1 /\ Thrower \in mounted(s)) => last.threw
        /\ (last.threw /\ last.op \in {"write", "update", "batch"})
              => /\ Thrower \in mounted(s)
                 /\ last.notified = 1
                 /\ \A l \in Subscribers \cap mounted(s) :
                       last.delta[s][l] =
                           IF position(s, l) < position(s, Thrower) THEN 1 ELSE 0
                 /\ s \in last.moved
                 /\ store[s].value = globalUid /\ store[s].stateId = globalUid
                 /\ (last.op = "write" /\ last.changes = 1)
                       => readsAs(World, s, last.writes[1][1], last.writes[1][2])

C25_Witness ==
    /\ last.op = "write" /\ last.threw /\ last.changes = 1
    /\ store[1].listeners = <<"L1", Thrower, "L2">>
    /\ last.delta[1]["L1"] = 1 /\ last.delta[1]["L2"] = 0
    /\ store[1].internalState["n"] = Prim(1)

\* C26: when fn throws inside batch(fn), the call ends with the exception,
\* the depth is back to what it was before the call and never below 0, and
\* when the call was the outermost one the queue is empty: every update
\* scheduled before the throw has run and notified the subscribers.
C26_ThrowingBatchCleansUp ==
    /\ batchDepth >= 0
    /\ last.op = "abort"
          => /\ last.threw
             /\ batchDepth = last.depth - 1
             /\ last.depth = 1
                   => /\ pendingUpdates = <<>>
                      /\ \A s \in StoreIds :
                            Thrower \notin mounted(s)
                                => /\ last.uids = -last.queued
                                   /\ last.notified = -last.queued
                                   /\ \A l \in mounted(s) :
                                         last.delta[s][l] = -last.queued

C26_Witness ==
    /\ last.op = "abort" /\ last.depth = 1 /\ last.queued = -2
    /\ mounted(1) = Subscribers
    /\ counter[1]["L1"] = 2 /\ counter[1]["L2"] = 2

\* C27: createStore has invoked every creator of methodCreators once, in
\* the order of the keys, each with the store itself, and each found on the
\* store the methods of the creators before it and no other; every creator's
\* result is on the store under its key; a key with a falsy value is
\* skipped and the keys after it are processed.
C27_CreatorsRunInKeyOrder ==
    \A s \in StoreIds :
        LET st == store[s]
            present == SelectSeq(st.methodCreators, LAMBDA c : c.present)
        IN st.pc = "ready"
            => /\ Len(st.created) = Len(present)
               /\ \A j \in 1..Len(present) :
                     /\ st.created[j].name = present[j].name
                     /\ st.created[j].store = s
                     /\ st.created[j].saw = {present[k].name : k \in 1..(j - 1)}
               /\ DOMAIN st.methods = {present[j].name : j \in 1..Len(present)}
               /\ \A m \in DOMAIN st.methods : st.methods[m] = <<"method", m>>
               /\ st.skipped = Len(st.methodCreators) - Len(present)

C27_Witness ==
    /\ last.op = "construct" /\ store[1].pc = "ready"
    /\ Len(store[1].methodCreators) = 3
    /\ store[1].methodCreators[1].name = "m3"
    /\ ~store[1].methodCreators[2].present
    /\ store[1].created = <<[name |-> "m3", store |-> 1, saw |-> {}],
                            [name |-> "m1", store |-> 1, saw |-> {"m3"}]>>
    /\ store[1].skipped = 1

\* one timer stands for all the value-changing writes since the last
\* notification, and its firing calls every subscriber once
proxyCoalesces ==
    /\ Cardinality(reactive.timers) <= 1
    /\ reactive.burst >= 1 => Cardinality(reactive.timers) = 1
    /\ (reactive.op = "write" /\ reactive.changed)
          => reactive.timers = {reactive.batchTimeout}
    /\ reactive.op = "fire"
          => \A i \in 1..Len(reactive.subscribers) :
                reactive.delta[reactive.subscribers[i]] = 1

\* C30: in the Proxy-based ReactiveStore the value-changing writes (root or
\* nested) made before the pending zero-delay timer fires are notified by
\* one call of each subscriber when it fires: every such write cancels the
\* timer armed before and arms one, so that a single timer is pending.
C30_ProxyWritesCoalesce == reactive.pc = "ready" => proxyCoalesces

\* C30 for subscribers that do not write to the store when they are called
ProxyCoalescesWithoutReentrantWrite ==
    (/\ reactive.pc = "ready"
     /\ Deriver \notin {reactive.subscribers[i] : i \in 1..Len(reactive.subscribers)})
        => proxyCoalesces


\* the callbacks in the subscriber set of the Proxy-based store
subscribed(rs) == {rs.subscribers[i] : i \in 1..Len(rs.subscribers)}

\* C31: in the Proxy-based store, once the function returned by
\* subscribe(callback) has been called, callback is invoked for no later
\* change (its number of calls stays what it was at the unsubscribe, until it
\* subscribes again); every notification delivered while it was subscribed
\* called it once; and the unsubscribe removes this callback only, so that
\* every callback still subscribed is called once by each notification.
C31_UnsubscribeStopsCalls ==
    /\ \A c \in DOMAIN reactive.frozen :
          reactive.frozen[c] >= 0 =>
              /\ c \notin subscribed(reactive)
              /\ reactive.calls[c] = reactive.frozen[c]
    /\ reactive.op = "fire" =>
          \A c \in DOMAIN reactive.calls :
              reactive.delta[c] = IF c \in subscribed(reactive) THEN 1 ELSE 0
    /\ reactive.op = "unsubscribe" =>
          /\ \E c \in DOMAIN reactive.calls :
                subscribed(reactive) = {reactive.was[i] : i \in 1..Len(reactive.was)} \ {c}
          /\ \A c \in DOMAIN reactive.calls : reactive.delta[c] = 0

\* a notification is delivered after S1 unsubscribed: S1 was called once
\* before and is not called now, S2 is called a second time
C31_Witness ==
    /\ reactive.op = "fire"
    /\ reactive.frozen["S1"] = 1 /\ reactive.calls["S1"] = 1
    /\ reactive.calls["S2"] = 2 /\ reactive.delta["S2"] = 1

\* the primitives and the objects of a tree, each with its path
RECURSIVE leaves(_, _)
leaves(v, path) ==
    IF isObject(v)
    THEN {<<path, "plain">>}
         \cup UNION {leaves(field(v, k), Append(path, k)) : k \in ownKeys(v)}
    ELSE {<<path, v>>}

\* path p starts with path q
startsWith(p, q) == Len(p) >= Len(q) /\ SubSeq(p, 1, Len(q)) = q

\* object new is object prev with exactly the fields that partial lists
\* changed: a field listed with an object, where prev holds an object, is
\* changed in the same way, any other field listed has partial's value, and
\* a field not listed is as it was
RECURSIVE mergedAs(_, _, _)
mergedAs(prev, new, partial) ==
    /\ isObject(new)
    /\ ownKeys(new) = ownKeys(prev) \cup ownKeys(partial)
    /\ \A k \in ownKeys(new) :
          IF k \notin ownKeys(partial) THEN field(new, k) = field(prev, k)
          ELSE IF /\ isObject(field(partial, k))
                  /\ k \in ownKeys(prev)
                  /\ isObject(field(prev, k))
               THEN mergedAs(field(prev, k), field(new, k), field(partial, k))
               ELSE field(new, k) = field(partial, k)

\* C32: in the Proxy-based store, merge(partial) on the proxy of a nested
\* object changes exactly the fields partial lists, recursively where both
\* sides hold plain objects, and leaves every other field of the object as it
\* was; set(value) on it makes reads of that path through the root proxy
\* return value's fields and no other; neither changes anything outside the
\* path, and both leave a notification scheduled.
C32_NestedMergeAndSet ==
    reactive.op \in {"merge", "set"} =>
        LET prev == getNestedValue(reactive.old, reactive.path)
            new  == getNestedValue(reactive.data, reactive.path)
        IN /\ reactive.op = "merge" => mergedAs(prev, new, reactive.arg)
           /\ reactive.op = "set" => new = reactive.arg
           /\ {l \in leaves(reactive.data, <<>>) : ~startsWith(l[1], reactive.path)}
                = {l \in leaves(reactive.old, <<>>) : ~startsWith(l[1], reactive.path)}
           /\ reactive.batchTimeout # 0
           /\ reactive.timers = {reactive.batchTimeout}

\* proxy.u.merge({p: {x: 1}}) has changed u.p.x and kept u.p.y and u.v
C32_Witness ==
    /\ reactive.op = "merge"
    /\ reactive.path = <<"u">>
    /\ reactive.arg = PlainObject([p |-> PlainObject([x |-> Prim(1)])])
    /\ getNestedValue(reactive.old, <<"u", "p", "x">>) = Prim(0)
    /\ getNestedValue(reactive.data, <<"u", "p", "x">>) = Prim(1)
    /\ getNestedValue(reactive.data, <<"u", "p", "y">>) = Prim(0)

\* C33: when a batch exit takes the depth from 1 to 0, the update closures
\* scheduled during the batch run exactly once each, in the order of their
\* scheduling, the first of them and all the others finding pendingUpdates
\* empty; afterwards pendingUpdates is empty, so that no later flush runs any
\* of them.  An exit at a greater depth runs none.
C33_FlushRunsEachOnceInOrder ==
    last.op \in {"batch", "abort"} =>
        IF last.depth = 1
        THEN /\ Len(last.ran) = Len(last.pending)
             /\ \A i \in 1..Len(last.ran) :
                   /\ last.ran[i].store = last.pending[i].store
                   /\ last.ran[i].pending = 0
             /\ last.uids = Len(last.pending)
             /\ pendingUpdates = <<>>
        ELSE /\ last.ran = <<>>
             /\ pendingUpdates = last.pending

\* the outermost batch ends with an update of store 2 and then one of
\* store 1 pending: store 2 gets the smaller version id
C33_Witness ==
    /\ last.op = "batch" /\ last.depth = 1
    /\ Len(last.pending) = 2
    /\ [i \in 1..2 |-> last.ran[i].store] = <<2, 1>>
    /\ store[2].stateId + 1 = store[1].stateId

\* C34: a write that a subscriber makes while it is notified, at depth 0
\* (outside any batch or during a flush), is applied and notified at once:
\* its update closure runs without entering pendingUpdates, and the
\* notification it causes is nested, every listener being invoked after the
\* writing subscriber was and before any listener that follows it at the
\* outer level; nothing is left pending when the operation ends at depth 0.
\* A write made at depth > 0, by the caller or inside the subscriber's own
\* batch, enters pendingUpdates and is not notified before the depth is 0.
C34_ReentrantWriteRunsAtOnce ==
    last.op \in {"write", "update", "batch"} =>
        LET ls == listenersOf(World, 1)
            inBatch == last.op # "batch" /\ last.depth > 0
            flushes == last.op = "batch" /\ last.depth = 1
            nested == {i \in 1..Len(last.order) : last.order[i][2] >= 2}
        IN /\ \A i \in 1..Len(last.ran) : last.ran[i].pending = 0
           /\ batchDepth = 0 => pendingUpdates = <<>>
           /\ Len(last.order) = last.notified * Cardinality(ls)
           /\ last.notified = Len(last.ran)
           /\ (last.notified >= 1 /\ ls \cap {Writer, Batcher} # {})
                 => readsAs(World, 1, <<"n">>, Prim(1))
           /\ \A i \in nested :
                 \E j \in 1..(i - 1) :
                     /\ last.order[j][1] \in {Writer, Batcher}
                     /\ last.order[j][2] = last.order[i][2] - 1
                     /\ \A k \in (j + 1)..i : last.order[k][2] >= last.order[i][2]
           /\ last.enqueued =
                 (IF inBatch THEN last.changes + last.updates ELSE 0)
                 + Cardinality({j \in 1..(Len(last.order) - 1) :
                                   /\ last.order[j][1] = Batcher
                                   /\ last.order[j + 1][2] > last.order[j][2]})
           /\ inBatch => last.ran = <<>> /\ last.notified = 0
           /\ (flushes /\ ls \cap {Writer, Batcher} # {} /\ nested # {})
                 => Len(last.ran) = Len(last.pending) + 1

\* the caller writes outside any batch while () => { store.n = 1 } is
\* subscribed before L1: the writer's write notifies both listeners before
\* the outer notification reaches L1
C34_Witness ==
    /\ last.op = "write" /\ last.depth = 0
    /\ last.order = << <<Writer, 1>>, <<Writer, 2>>, <<"L1", 2>>, <<"L1", 1>> >>
    /\ last.enqueued = 0 /\ Len(last.ran) = 2
    /\ pendingUpdates = <<>>

\* C35: no operation of a store (construction with or without restore, root
\* write, nested write through a wrapper, $merge, $update, save) changes the
\* initialState object the caller passed or a raw object reachable from it:
\* they keep the keys and values they had when createStore was called.
C35_CallerObjectsUntouched ==
    /\ \A o \in DOMAIN CallerObjects : raw[o] = CallerObjects[o]
    /\ \A s \in StoreIds : store[s].initial = [a |-> Obj(1), b |-> Obj(2), n |-> Prim(0)]

\* store.a.p.v = 1 has been written through the wrappers and reads back,
\* while the caller's object still holds v = 0
C35_Witness ==
    /\ last.op = "write"
    /\ last.writes = << <<<<"a", "p", "v">>, Prim(1)>> >>
    /\ last.changes = 1
    /\ readsAs(World, 1, <<"a", "p", "v">>, Prim(1))
    /\ raw[Obj(3)]["v"] = Prim(0)
    /\ store[1].internalState["a"] = Obj(1)

\* C36: after $clearPersist() has returned, the configured key is absent
\* from storage as long as no state notification of the store has followed,
\* also when a debounce timer was armed before the call.
C36_ClearedKeyStaysAbsent ==
    \A s \in StoreIds :
        since[s].cleared # "no" => ~storage.items[store[s].persist.key].present

\* C36 for the calls of $clearPersist made while no debounce timer is armed
ClearedKeyStaysAbsentWithoutTimer ==
    \A s \in StoreIds :
        since[s].cleared = "idle" => ~storage.items[store[s].persist.key].present

\* C37: store.k = store.k on a nested-object property, root or nested,
\* notifies no subscriber, leaves the version as it is, and a read of the
\* property afterwards returns the wrapper that was assigned.
C37_SelfAssignmentIsNoOp ==
    last.op = "reassign" =>
        \A s \in last.on :
            /\ Got(s, 0)
            /\ last.notified = 0
            /\ last.moved = {}
            /\ last.uids = 0
            /\ readPath(World, s, last.writes[1][1]).ret = last.writes[1][2]

\* C38: once a nested-object property has been replaced by a different
\* object, a write through the wrapper the caller got from the property
\* before the replacement notifies no subscriber of the store and leaves the
\* store's version as it is.
C38_StaleWrapperWriteIsSilent ==
    last.op = "stale" =>
        \A s \in last.on :
            /\ Got(s, 0)
            /\ last.notified = 0
            /\ last.moved = {}
            /\ last.uids = 0

\* C38 for the writes that assign the value the old wrapper already holds
StaleWrapperEqualWriteIsSilent ==
    (last.op = "stale" /\ last.changes = 0) =>
        \A s \in last.on :
            Got(s, 0) /\ last.notified = 0 /\ last.moved = {} /\ last.uids = 0

\* every store with an update pending at the exit of the outermost batch has
\* a new version and has notified its listeners, those subscribed after a
\* throwing listener of the same store excepted
allUpdatesDelivered ==
    /\ Len(last.ran) = Len(last.pending)
    /\ \A i \in 1..Len(last.pending) :
          LET s == last.pending[i].store
          IN /\ s \in last.moved
             /\ store[s].value = store[s].stateId
             /\ \A l \in Subscribers \cap mounted(s) :
                   (Thrower \notin mounted(s) \/ position(s, l) < position(s, Thrower))
                       => last.delta[s][l] >= 1

\* C39: when the outermost batch exits, every store that received a
\* value-changing write inside the batch gets a new version and notifies its
\* subscribers, also when a subscriber of another store, written earlier in
\* the batch, throws during the flush: no scheduled update is lost.
C39_NoUpdateLostWhenListenerThrows ==
    (last.op = "batch" /\ last.depth = 1) => allUpdatesDelivered

\* C39 for the flushes during which no listener throws
NoUpdateLostWithoutThrow ==
    (last.op = "batch" /\ last.depth = 1 /\ ~last.threw) => allUpdatesDelivered

\* C40: the Proxy-based createStore leaves no notification pending when it
\* returns, and a subscriber registered after it returns is invoked only
\* once a state property has been changed afterwards.
C40_ConstructionLeavesNothingPending ==
    /\ reactive.op = "create" => reactive.timers = {}
    /\ \A c \in Callbacks : reactive.calls[c] > 0 => reactive.touched

\* C40 apart from the timer the construction arms: as long as no state
\* property has changed, a subscriber is invoked at most once
CallsAfterConstructionFollowChange ==
    (reactive.pc = "ready" /\ ~reactive.touched) =>
        \A c \in Callbacks : reactive.calls[c] <= 1
====
